---------------------------- MODULE Spec2Model ----------------------------
(***************************************************************************)
(* The filter compiler of the repository: a filter expression is lexed    *)
(* (tokenize), parsed by recursive descent (FilterParser) into a          *)
(* LogicalFilter tree, converted to the query builder's LogicalNode tree  *)
(* (LogicFilter_to_LogicalNode) and wrapped into the getMetrics query     *)
(* (build_query).  Enumeration members are resolved through alias tables  *)
(* (AliasEnum).                                                            *)
(*                                                                         *)
(* Text is a sequence of one-character strings, so that the lexer, strip, *)
(* lower, upper and int work on characters as the Python code does.       *)
(***************************************************************************)
EXTENDS Integers, Sequences, FiniteSets, TLC

VARIABLES
    call,         \* the entry point this run exercises
    pc,           \* position of the run in its pipeline
    input,        \* the text, or the record of arguments, handed to the entry point
    family,       \* "resolve" runs: the alias family asked
    tokens,       \* result of tokenize(input)
    tree,         \* LogicalFilter returned by FilterParser.parse, or None
    error,        \* type of the exception that ended the run, "" when none
    errpos,       \* FilterParser.pos when the parser returned or raised
    caseFilters,  \* LogicalNode returned by LogicFilter_to_LogicalNode, or None
    query,        \* Query object build_query renders
    resolved,     \* "resolve" runs: value of the member found, "" before
    result,       \* value returned by the call of a run of the other entry points
    builders,     \* "compile" runs: the MetricBuilder objects handed to build_query
    outputs,      \* "compile" runs: the queries built so far, with their groupBy
    sem,          \* "plan" runs: the value of the semaphore of execute_plan_async
    tasks         \* "plan" runs: where each run_one task stands

vars == <<call, pc, input, family, tokens, tree, error, errpos, caseFilters, query, resolved,
          result, builders, outputs, sem, tasks>>

None == [type |-> "None"]

-----------------------------------------------------------------------------
(* Characters and the str methods the code uses.                           *)

Upper == {"A","B","C","D","E","F","G","H","I","J","K","L","M",
          "N","O","P","Q","R","S","T","U","V","W","X","Y","Z"}
Lower == {"a","b","c","d","e","f","g","h","i","j","k","l","m",
          "n","o","p","q","r","s","t","u","v","w","x","y","z"}
Digit == {"0","1","2","3","4","5","6","7","8","9"}
\* the ASCII characters that \s of a str pattern and str.strip() take as
\* whitespace: blank, tab, line feed, carriage return, form feed, vertical
\* tab and the separators 0x1c to 0x1f (the whitespace beyond ASCII is left out)
Space == {" ", "\t", "\n", "\r", "\f", "", "", "", "", ""}

\* the whitespace int() drops around a literal: not the separators 0x1c to 0x1f
IntSpace == {" ", "\t", "\n", "\r", "\f", ""}

UpperSeq == <<"A","B","C","D","E","F","G","H","I","J","K","L","M",
              "N","O","P","Q","R","S","T","U","V","W","X","Y","Z">>
LowerSeq == <<"a","b","c","d","e","f","g","h","i","j","k","l","m",
              "n","o","p","q","r","s","t","u","v","w","x","y","z">>

IndexIn(seq, c) == CHOOSE k \in 1..Len(seq) : seq[k] = c

LowerChar(c) == IF c \in Upper THEN LowerSeq[IndexIn(UpperSeq, c)] ELSE c
UpperChar(c) == IF c \in Lower THEN UpperSeq[IndexIn(LowerSeq, c)] ELSE c

\* str.lower() and str.upper()
lower(s) == [i \in 1..Len(s) |-> LowerChar(s[i])]
upper(s) == [i \in 1..Len(s) |-> UpperChar(s[i])]

\* s without the characters of chars at its two ends
StripOf(s, chars) ==
    LET keep == {i \in 1..Len(s) : s[i] \notin chars}
    IN  IF keep = {} THEN <<>>
        ELSE LET a == CHOOSE i \in keep : \A j \in keep : i <= j
                 b == CHOOSE i \in keep : \A j \in keep : i >= j
             IN  SubSeq(s, a, b)

\* str.strip()
strip(s) == StripOf(s, Space)

\* the Python str a character sequence stands for
RECURSIVE Str(_)
Str(s) == IF s = <<>> THEN "" ELSE Head(s) \o Str(Tail(s))

DigitValue(c) == IndexIn(<<"0","1","2","3","4","5","6","7","8","9">>, c) - 1

RECURSIVE DecimalValue(_)
DecimalValue(s) == IF s = <<>> THEN 0 ELSE DecimalValue(SubSeq(s, 1, Len(s) - 1)) * 10 + DigitValue(s[Len(s)])

\* the text of an int literal without surrounding whitespace and sign
IntBody(s) ==
    IF StripOf(s, IntSpace) # <<>> /\ StripOf(s, IntSpace)[1] \in {"+", "-"}
    THEN Tail(StripOf(s, IntSpace)) ELSE StripOf(s, IntSpace)

\* digits, with single underscores allowed between two digits
IntLiteral(b) ==
    /\ b # <<>>
    /\ \A i \in 1..Len(b) : b[i] \in Digit \cup {"_"}
    /\ b[1] \in Digit /\ b[Len(b)] \in Digit
    /\ \A i \in 1..(Len(b) - 1) : ~(b[i] = "_" /\ b[i + 1] = "_")

\* int(text): whitespace around the literal is dropped, a sign may precede
\* the digits; any other text (a word, punctuation, the empty text of EOF) is
\* a ValueError
int(s) ==
    IF IntLiteral(IntBody(s))
    THEN [err |-> "",
          val |-> (IF StripOf(s, IntSpace)[1] = "-" THEN -1 ELSE 1)
                  * DecimalValue(SelectSeq(IntBody(s), LAMBDA c : c \in Digit))]
    ELSE [err |-> "ValueError", val |-> 0]

-----------------------------------------------------------------------------
(* tokenize: cli_token_parser.py                                           *)

\* the alternation tried at each scan position, in this order
TOKEN_REGEX == <<"LPAREN", "RPAREN", "COMMA", "OPERATOR", "COMPARISON",
                 "IDENT", "NUMBER", "STRING", "SKIP">>

OperatorWords == << <<"A","N","D">>, <<"O","R">>, <<"N","O","T">> >>
ComparisonSymbols == << <<"=","=">>, <<"!","=">>, <<">","=">>, <<"<","=">>, <<">">>, <<"<">> >>

\* \w and the word boundary \b before position i
IsWordAt(s, i) == i >= 1 /\ i <= Len(s) /\ s[i] \in (Upper \cup Lower \cup Digit \cup {"_"})
WordBoundary(s, i) == IsWordAt(s, i - 1) # IsWordAt(s, i)

LiteralAt(s, i, lit) == i + Len(lit) - 1 <= Len(s) /\ SubSeq(s, i, i + Len(lit) - 1) = lit

\* length of the longest run of characters of class cls starting at i
RECURSIVE RunLen(_, _, _)
RunLen(s, i, cls) == IF i <= Len(s) /\ s[i] \in cls THEN 1 + RunLen(s, i + 1, cls) ELSE 0

\* length of the first alternative of alts that matches at i, 0 if none
FirstLiteralLen(s, i, alts, bounded) ==
    LET hits == {k \in 1..Len(alts) :
                    /\ LiteralAt(s, i, alts[k])
                    /\ bounded => (WordBoundary(s, i) /\ WordBoundary(s, i + Len(alts[k])))}
    IN  IF hits = {} THEN 0
        ELSE Len(alts[CHOOSE k \in hits : \A j \in hits : k <= j])

\* length of the match of one rule of TOKEN_REGEX at position i, 0 if none
MatchLen(rule, s, i) ==
    CASE rule = "LPAREN"     -> IF s[i] = "(" THEN 1 ELSE 0
      [] rule = "RPAREN"     -> IF s[i] = ")" THEN 1 ELSE 0
      [] rule = "COMMA"      -> IF s[i] = "," THEN 1 ELSE 0
      [] rule = "OPERATOR"   -> FirstLiteralLen(s, i, OperatorWords, TRUE)
      [] rule = "COMPARISON" -> FirstLiteralLen(s, i, ComparisonSymbols, FALSE)
      [] rule = "IDENT"      -> RunLen(s, i, Upper \cup {"_"})
      [] rule = "NUMBER"     -> RunLen(s, i, Digit)
      [] rule = "STRING"     -> RunLen(s, i, Upper \cup {"_"})
      [] rule = "SKIP"       -> RunLen(s, i, Space)

\* the first rule that matches at i (match.lastgroup), 0 if none matches
MatchRule(s, i) ==
    LET hits == {k \in 1..Len(TOKEN_REGEX) : MatchLen(TOKEN_REGEX[k], s, i) > 0}
    IN  IF hits = {} THEN 0 ELSE CHOOSE k \in hits : \A j \in hits : k <= j

\* scanner.finditer from position i: a position where no rule matches is skipped
RECURSIVE scan(_, _)
scan(s, i) ==
    IF i > Len(s) THEN <<>>
    ELSE LET k == MatchRule(s, i)
         IN  IF k = 0 THEN scan(s, i + 1)
             ELSE LET n == MatchLen(TOKEN_REGEX[k], s, i)
                      kind == TOKEN_REGEX[k]
                  IN  (IF kind # "SKIP" THEN << <<kind, SubSeq(s, i, i + n - 1)>> >> ELSE <<>>)
                      \o scan(s, i + n)

tokenize(input_str) == scan(input_str, 1)

-----------------------------------------------------------------------------
(* AliasEnum families: base_models.py, filter_models.py.  A member is its  *)
(* name, its value and the alias set __new__ stores (lower-cased).  The    *)
(* two non-ASCII aliases are written by code point; no input of the model  *)
(* contains them.                                                          *)

\* filter_models.py lines 10-16
ComparisonProperty == <<
    [name |-> "GreaterOrEqual", value |-> <<"G","E">>,
     aliases |-> {"greater than or equal", "at least", "no less than", "U+2265", "=>"}],
    [name |-> "LessOrEqual", value |-> <<"L","E">>,
     aliases |-> {"less than or equal", "at most", "no more than", "U+2264", "<="}],
    [name |-> "LessThan", value |-> <<"L","T">>,
     aliases |-> {"less than", "fewer than", "<", "below"}],
    [name |-> "GreaterThan", value |-> <<"G","T">>,
     aliases |-> {"greater than", "more than", ">", "above"}],
    [name |-> "Equal", value |-> <<"E","Q">>,
     aliases |-> {"equal to", "equals", "==", "is"}],
    [name |-> "NotEqual", value |-> <<"N","E">>,
     aliases |-> {"not equal to", "not equals", "!=", "is not"}]
    >>

\* filter_models.py lines 50-54
SexProperty == <<
    [name |-> "Male", value |-> <<"M","A","L","E">>,
     aliases |-> {"man", "m"}],
    [name |-> "Female", value |-> <<"F","E","M","A","L","E">>,
     aliases |-> {"woman", "f"}],
    [name |-> "Other", value |-> <<"O","T","H","E","R">>,
     aliases |-> {"non-binary", "genderqueer", "agender", "genderfluid"}],
    [name |-> "Unknown", value |-> <<"U","N","K","N","O","W","N">>,
     aliases |-> {"unspecified", "not provided", "n/a", "na"}]
    >>

\* filter_models.py lines 66-73
StrokeProperty == <<
    [name |-> "Ischemic", value |-> <<"I","S","C","H","E","M","I","C">>,
     aliases |-> {"ischemic stroke", "clot stroke", "blockage stroke"}],
    [name |-> "IntracerebralHemorrhage", value |-> <<"I","N","T","R","A","C","E","R","E","B","R","A","L","_","H","E","M","O","R","R","H","A","G","E">>,
     aliases |-> {"ich", "brain bleed", "intracerebral bleeding", "intraparenchymal hemorrhage"}],
    [name |-> "TransientIschemic", value |-> <<"T","R","A","N","S","I","E","N","T","_","I","S","C","H","E","M","I","C">>,
     aliases |-> {"tia", "mini stroke", "transient ischemic attack"}],
    [name |-> "Subaracnoid", value |-> <<"S","U","B","A","R","A","C","H","N","O","I","D","_","H","E","M","O","R","R","H","A","G","E">>,
     aliases |-> {"sah", "aneurysm rupture", "subarachnoid bleed"}],
    [name |-> "CerebralVenousThrombosis", value |-> <<"C","E","R","E","B","R","A","L","_","V","E","N","O","U","S","_","T","H","R","O","M","B","O","S","I","S">>,
     aliases |-> {"cvt", "venous stroke", "cerebral vein clot"}],
    [name |-> "StrokeMimics", value |-> <<"S","T","R","O","K","E","_","M","I","M","I","C","S">>,
     aliases |-> {"mimics", "stroke-like symptoms", "not a real stroke", "conversion disorder"}],
    [name |-> "Undetermined", value |-> <<"U","N","D","E","T","E","R","M","I","N","E","D">>,
     aliases |-> {"unknown stroke type", "unspecified", "unclear diagnosis"}]
    >>

\* filter_models.py lines 104-124
BooleanProperty == <<
    [name |-> "Thrombectomy", value |-> <<"T","H","R","O","M","B","E","C","T","O","M","Y">>,
     aliases |-> {"clot removal", "mechanical thrombectomy", "embolectomy"}],
    [name |-> "Thrombolysis", value |-> <<"T","H","R","O","M","B","O","L","Y","S","I","S">>,
     aliases |-> {"tpa", "alteplase", "clot-busting drug", "lysis treatment"}],
    [name |-> "Before_Onset_Cilostazol", value |-> <<"B","E","F","O","R","E","_","O","N","S","E","T","_","C","I","L","O","S","T","A","Z","O","L">>,
     aliases |-> {"cilostazol before onset"}],
    [name |-> "Before_Onset_Clopidogrel", value |-> <<"B","E","F","O","R","E","_","O","N","S","E","T","_","C","L","O","P","I","D","O","G","R","E","L">>,
     aliases |-> {"plavix", "clopidogrel before stroke"}],
    [name |-> "Before_Onset_Ticagrelor", value |-> <<"B","E","F","O","R","E","_","O","N","S","E","T","_","T","I","C","A","G","R","E","L","O","R">>,
     aliases |-> {"brilinta", "ticagrelor pre-stroke"}],
    [name |-> "Before_Onset_Ticlopidine", value |-> <<"B","E","F","O","R","E","_","O","N","S","E","T","_","T","I","C","L","O","P","I","D","I","N","E">>,
     aliases |-> {"ticlopidine before stroke"}],
    [name |-> "Before_Onset_Prasugrel", value |-> <<"B","E","F","O","R","E","_","O","N","S","E","T","_","P","R","A","S","U","G","R","E","L">>,
     aliases |-> {"prasugrel before stroke"}],
    [name |-> "Before_Onset_Dipyridamole", value |-> <<"B","E","F","O","R","E","_","O","N","S","E","T","_","D","I","P","Y","R","I","D","A","M","O","L","E">>,
     aliases |-> {"dipyridamole pre-stroke"}],
    [name |-> "Before_Onset_Other_Antiplatelet", value |-> <<"B","E","F","O","R","E","_","O","N","S","E","T","_","O","T","H","E","R","_","A","N","T","I","P","L","A","T","E","L","E","T">>,
     aliases |-> {"other antiplatelet used", "unknown antiplatelet"}],
    [name |-> "Before_Onset_Any_Antiplatelet", value |-> <<"B","E","F","O","R","E","_","O","N","S","E","T","_","A","N","Y","_","A","N","T","I","P","L","A","T","E","L","E","T">>,
     aliases |-> {"on any antiplatelet", "antiplatelet therapy"}],
    [name |-> "Before_Onset_Warfarins", value |-> <<"B","E","F","O","R","E","_","O","N","S","E","T","_","W","A","R","F","A","R","I","N","S">>,
     aliases |-> {"warfarin", "coumadin"}],
    [name |-> "Before_Onset_Dabigatran", value |-> <<"B","E","F","O","R","E","_","O","N","S","E","T","_","D","A","B","I","G","A","T","R","A","N">>,
     aliases |-> {"pradaxa", "dabigatran before stroke"}],
    [name |-> "Before_Onset_Rivaroxaban", value |-> <<"B","E","F","O","R","E","_","O","N","S","E","T","_","R","I","V","A","R","O","X","A","B","A","N">>,
     aliases |-> {"xarelto", "rivaroxaban pre-stroke"}],
    [name |-> "Before_Onset_Apixaban", value |-> <<"B","E","F","O","R","E","_","O","N","S","E","T","_","A","P","I","X","A","B","A","N">>,
     aliases |-> {"eliquis", "apixaban before stroke"}],
    [name |-> "Before_Onset_Edoxaban", value |-> <<"B","E","F","O","R","E","_","O","N","S","E","T","_","E","D","O","X","A","B","A","N">>,
     aliases |-> {"lixiana", "edoxaban pre-stroke"}],
    [name |-> "Before_Onset_Other_Anticoagulant", value |-> <<"B","E","F","O","R","E","_","O","N","S","E","T","_","O","T","H","E","R","_","A","N","T","I","C","O","A","G","U","L","A","N","T">>,
     aliases |-> {"other anticoagulant used", "unknown blood thinner"}],
    [name |-> "Before_Onset_Any_Anticoagulant", value |-> <<"B","E","F","O","R","E","_","O","N","S","E","T","_","A","N","Y","_","A","N","T","I","C","O","A","G","U","L","A","N","T">>,
     aliases |-> {"on any anticoagulant", "any blood thinner"}],
    [name |-> "Before_Onset_Statin", value |-> <<"B","E","F","O","R","E","_","O","N","S","E","T","_","S","T","A","T","I","N">>,
     aliases |-> {"on statin", "statin before stroke", "lipid lowering"}],
    [name |-> "Before_Onset_Heparin", value |-> <<"B","E","F","O","R","E","_","O","N","S","E","T","_","H","E","P","A","R","I","N">>,
     aliases |-> {"on heparin", "heparin before stroke"}],
    [name |-> "Before_Onset_Contraception", value |-> <<"B","E","F","O","R","E","_","O","N","S","E","T","_","C","O","N","T","R","A","C","E","P","T","I","O","N">>,
     aliases |-> {"on birth control", "hormonal contraception", "contraceptives before stroke"}]
    >>

\* filter_models.py lines 151-154
OperatorProperty == <<
    [name |-> "AND", value |-> <<"A","N","D">>,
     aliases |-> {"&", "&&"}],
    [name |-> "OR", value |-> <<"O","R">>,
     aliases |-> {"|", "||"}],
    [name |-> "NOT", value |-> <<"N","O","T">>,
     aliases |-> {"!=", "=!", "!!"}]
    >>


Families == [ComparisonProperty |-> ComparisonProperty, SexProperty |-> SexProperty,
             StrokeProperty |-> StrokeProperty, BooleanProperty |-> BooleanProperty,
             OperatorProperty |-> OperatorProperty]

FirstOf(hits) == CHOOSE k \in hits : \A j \in hits : k <= j

\* the member at the first of the indices hits, a ValueError when there is none
MemberAt(cls, hits) ==
    IF hits = {} THEN [err |-> "ValueError", val |-> ""]
    ELSE [err |-> "", val |-> Str(cls[FirstOf(hits)].value)]

\* the members whose lower-cased value is val or whose alias set holds val;
\* text is val as a string, as the alias sets hold strings
Matching(cls, val, text) ==
    {k \in 1..Len(cls) : (Len(val) = Len(cls[k].value) /\ val = lower(cls[k].value))
                         \/ text \in cls[k].aliases}

\* AliasEnum._missing_: the first member that matches value.strip().lower();
\* ValueError when there is none
missing_(cls, value) ==
    MemberAt(cls, Matching(cls, lower(strip(value)), Str(lower(strip(value)))))

\* AliasEnum.from_value = cls(value): Enum's lookup by value, then _missing_
from_value(cls, value) ==
    IF \E k \in 1..Len(cls) : cls[k].value = value
    THEN MemberAt(cls, {k \in 1..Len(cls) : cls[k].value = value})
    ELSE missing_(cls, value)

-----------------------------------------------------------------------------
(* Filter models: filter_models.py.  Constructors return [err, val]: the   *)
(* pydantic validation error of DateFilter's pattern is a ValueError.      *)

IM_AgeFilter(operator, value)   == [type |-> "AgeFilter", operator |-> operator, value |-> value]
IM_NIHSSFilter(operator, value) == [type |-> "NIHSSFilter", operator |-> operator, value |-> value]
IM_SexFilter(value)             == [type |-> "SexFilter", value |-> value]
IM_StrokeFilter(value)          == [type |-> "StrokeFilter", value |-> value]
IM_BooleanFilter(property, value) == [type |-> "BooleanFilter", property |-> property, value |-> value]

\* pattern ^\d{4}-\d{2}-\d{2}$ of DateFilter.value
DatePattern(s) ==
    /\ Len(s) = 10
    /\ \A i \in {1, 2, 3, 4, 6, 7, 9, 10} : s[i] \in Digit
    /\ s[5] = "-" /\ s[8] = "-"

IM_DateFilter(operator, value) ==
    IF DatePattern(value)
    THEN [err |-> "", val |-> [type |-> "DateFilter", operator |-> operator, value |-> Str(value)]]
    ELSE [err |-> "ValueError", val |-> None]

LogicalFilter(operator, children) ==
    [type |-> "LogicalFilter", operator |-> operator, children |-> children]

-----------------------------------------------------------------------------
(* Calls that may raise return [err, val]: the exception type ("" when the *)
(* call returns normally) and the value returned.                          *)

\* r is the outcome [err, val] of a call: an exception propagates
Try(r, F(_)) == IF r.err # "" THEN [err |-> r.err, val |-> None] ELSE F(r)

Value(v) == [err |-> "", val |-> v]

\* a try block whose handler re-raises whatever was raised as a ValueError
AsValueError(r) == IF r.err # "" THEN [err |-> "ValueError", val |-> None] ELSE r

-----------------------------------------------------------------------------
(* Metric models: metric_models.py                                         *)

\* metric_models.py lines 8-149
KPI == <<
    [name |-> "AaDtnLe60", value |-> <<"A","A","_","D","T","N","_","L","E","6","0">>,
     aliases |-> {}],
    [name |-> "AaDtnLe45", value |-> <<"A","A","_","D","T","N","_","L","E","4","5">>,
     aliases |-> {}],
    [name |-> "AaDtgLe120", value |-> <<"A","A","_","D","T","G","_","L","E","1","2","0">>,
     aliases |-> {}],
    [name |-> "AaDtgLe90", value |-> <<"A","A","_","D","T","G","_","L","E","9","0">>,
     aliases |-> {}],
    [name |-> "AaRecanalization", value |-> <<"A","A","_","R","E","C","A","N","A","L","I","Z","A","T","I","O","N">>,
     aliases |-> {}],
    [name |-> "AaImaging", value |-> <<"A","A","_","I","M","A","G","I","N","G">>,
     aliases |-> {}],
    [name |-> "AaSwallowingScreening", value |-> <<"A","A","_","S","W","A","L","L","O","W","I","N","G","_","S","C","R","E","E","N","I","N","G">>,
     aliases |-> {}],
    [name |-> "AaAnticoagulants", value |-> <<"A","A","_","A","N","T","I","C","O","A","G","U","L","A","N","T","S">>,
     aliases |-> {}],
    [name |-> "AaAntithrombotics", value |-> <<"A","A","_","A","N","T","I","T","H","R","O","M","B","O","T","I","C","S">>,
     aliases |-> {}],
    [name |-> "AaStrokeUnit", value |-> <<"A","A","_","S","T","R","O","K","E","_","U","N","I","T">>,
     aliases |-> {}],
    [name |-> "Age", value |-> <<"A","G","E">>,
     aliases |-> {"patient age", "years", "age of patient"}],
    [name |-> "WakeupStroke", value |-> <<"W","A","K","E","U","P","_","S","T","R","O","K","E">>,
     aliases |-> {}],
    [name |-> "InhospitalStroke", value |-> <<"I","N","H","O","S","P","I","T","A","L","_","S","T","R","O","K","E">>,
     aliases |-> {}],
    [name |-> "ArrivalMode", value |-> <<"A","R","R","I","V","A","L","_","M","O","D","E">>,
     aliases |-> {}],
    [name |-> "EmsPrenotification", value |-> <<"E","M","S","_","P","R","E","N","O","T","I","F","I","C","A","T","I","O","N">>,
     aliases |-> {}],
    [name |-> "AdmissionDepartment", value |-> <<"A","D","M","I","S","S","I","O","N","_","D","E","P","A","R","T","M","E","N","T">>,
     aliases |-> {}],
    [name |-> "FirstContactPlace", value |-> <<"F","I","R","S","T","_","C","O","N","T","A","C","T","_","P","L","A","C","E">>,
     aliases |-> {}],
    [name |-> "HospitalizedIn", value |-> <<"H","O","S","P","I","T","A","L","I","Z","E","D","_","I","N">>,
     aliases |-> {}],
    [name |-> "Sex", value |-> <<"S","E","X">>,
     aliases |-> {}],
    [name |-> "RiskFactorsType", value |-> <<"R","I","S","K","_","F","A","C","T","O","R","S","_","T","Y","P","E">>,
     aliases |-> {}],
    [name |-> "BeforeOnsetMedication", value |-> <<"B","E","F","O","R","E","_","O","N","S","E","T","_","M","E","D","I","C","A","T","I","O","N">>,
     aliases |-> {}],
    [name |-> "BeforeOnsetMedicationAisTia", value |-> <<"B","E","F","O","R","E","_","O","N","S","E","T","_","M","E","D","I","C","A","T","I","O","N","_","A","I","S","_","T","I","A">>,
     aliases |-> {}],
    [name |-> "BeforeOnsetMedicationIch", value |-> <<"B","E","F","O","R","E","_","O","N","S","E","T","_","M","E","D","I","C","A","T","I","O","N","_","I","C","H">>,
     aliases |-> {}],
    [name |-> "BeforeOnsetAntiplateletType", value |-> <<"B","E","F","O","R","E","_","O","N","S","E","T","_","A","N","T","I","P","L","A","T","E","L","E","T","_","T","Y","P","E">>,
     aliases |-> {}],
    [name |-> "BeforeOnsetAnticoagulantType", value |-> <<"B","E","F","O","R","E","_","O","N","S","E","T","_","A","N","T","I","C","O","A","G","U","L","A","N","T","_","T","Y","P","E">>,
     aliases |-> {}],
    [name |-> "AdmissionNihss", value |-> <<"A","D","M","I","S","S","I","O","N","_","N","I","H","S","S">>,
     aliases |-> {"stroke severity", "nihss", "initial nihss", "admission score"}],
    [name |-> "PrestrokeMrs", value |-> <<"P","R","E","S","T","R","O","K","E","_","M","R","S">>,
     aliases |-> {}],
    [name |-> "Glucose", value |-> <<"G","L","U","C","O","S","E">>,
     aliases |-> {}],
    [name |-> "Cholesterol", value |-> <<"C","H","O","L","E","S","T","E","R","O","L">>,
     aliases |-> {}],
    [name |-> "SystolicPressure", value |-> <<"S","Y","S","T","O","L","I","C","_","P","R","E","S","S","U","R","E">>,
     aliases |-> {}],
    [name |-> "DiastolicPressure", value |-> <<"D","I","A","S","T","O","L","I","C","_","P","R","E","S","S","U","R","E">>,
     aliases |-> {}],
    [name |-> "InrMode", value |-> <<"I","N","R","_","M","O","D","E">>,
     aliases |-> {}],
    [name |-> "ImagingDone", value |-> <<"I","M","A","G","I","N","G","_","D","O","N","E">>,
     aliases |-> {}],
    [name |-> "ImagingType", value |-> <<"I","M","A","G","I","N","G","_","T","Y","P","E">>,
     aliases |-> {}],
    [name |-> "OcclusionFound", value |-> <<"O","C","C","L","U","S","I","O","N","_","F","O","U","N","D">>,
     aliases |-> {}],
    [name |-> "OcclusionSite", value |-> <<"O","C","C","L","U","S","I","O","N","_","S","I","T","E">>,
     aliases |-> {}],
    [name |-> "OldInfarctsSeen", value |-> <<"O","L","D","_","I","N","F","A","R","C","T","S","_","S","E","E","N">>,
     aliases |-> {}],
    [name |-> "OldInfarctsType", value |-> <<"O","L","D","_","I","N","F","A","R","C","T","S","_","T","Y","P","E">>,
     aliases |-> {}],
    [name |-> "PerfusionDeficitType", value |-> <<"P","E","R","F","U","S","I","O","N","_","D","E","F","I","C","I","T","_","T","Y","P","E">>,
     aliases |-> {}],
    [name |-> "PerfusionCore", value |-> <<"P","E","R","F","U","S","I","O","N","_","C","O","R","E">>,
     aliases |-> {}],
    [name |-> "Hypoperfusion", value |-> <<"H","Y","P","O","P","E","R","F","U","S","I","O","N">>,
     aliases |-> {}],
    [name |-> "StrokeType", value |-> <<"s","t","r","o","k","e"," ","s","u","b","t","y","p","e">>,
     aliases |-> {"type of stroke", "stroke classification"}],
    [name |-> "StrokeMimicsDiagnosis", value |-> <<"S","T","R","O","K","E","_","M","I","M","I","C","S","_","D","I","A","G","N","O","S","I","S">>,
     aliases |-> {}],
    [name |-> "Thrombolysis", value |-> <<"T","H","R","O","M","B","O","L","Y","S","I","S">>,
     aliases |-> {}],
    [name |-> "Thrombectomy", value |-> <<"T","H","R","O","M","B","E","C","T","O","M","Y">>,
     aliases |-> {}],
    [name |-> "ThrombolysisOnly", value |-> <<"T","H","R","O","M","B","O","L","Y","S","I","S","_","O","N","L","Y">>,
     aliases |-> {}],
    [name |-> "ThrombolysisAndThrombectomy", value |-> <<"T","H","R","O","M","B","O","L","Y","S","I","S","_","A","N","D","_","T","H","R","O","M","B","E","C","T","O","M","Y">>,
     aliases |-> {}],
    [name |-> "Recanalization", value |-> <<"R","E","C","A","N","A","L","I","Z","A","T","I","O","N">>,
     aliases |-> {}],
    [name |-> "Dtn", value |-> <<"D","T","N">>,
     aliases |-> {"door to needle", "door to needle time", "time to thrombolysis", "time until thrombolytic treatment", "time to iv tpa", "time to treatment", "treatment delay"}],
    [name |-> "DtgPrimary", value |-> <<"D","T","G","_","P","R","I","M","A","R","Y">>,
     aliases |-> {}],
    [name |-> "DtgSecondary", value |-> <<"D","T","G","_","S","E","C","O","N","D","A","R","Y">>,
     aliases |-> {}],
    [name |-> "Dido", value |-> <<"D","I","D","O">>,
     aliases |-> {"door in door out", "transfer delay", "time before transfer", "time spent before transfer", "time at initial hospital", "duration at referring hospital", "initial hospital stay time", "primary site delay", "door-to-door time"}],
    [name |-> "DoorToReperfusion", value |-> <<"D","O","O","R","_","T","O","_","R","E","P","E","R","F","U","S","I","O","N">>,
     aliases |-> {}],
    [name |-> "MticiScore", value |-> <<"M","T","I","C","I","_","S","C","O","R","E">>,
     aliases |-> {}],
    [name |-> "NoThrombolysisReason", value |-> <<"N","O","_","T","H","R","O","M","B","O","L","Y","S","I","S","_","R","E","A","S","O","N">>,
     aliases |-> {}],
    [name |-> "NoThrombectomyReason", value |-> <<"N","O","_","T","H","R","O","M","B","E","C","T","O","M","Y","_","R","E","A","S","O","N">>,
     aliases |-> {}],
    [name |-> "MtComplicationsType", value |-> <<"M","T","_","C","O","M","P","L","I","C","A","T","I","O","N","S","_","T","Y","P","E">>,
     aliases |-> {}],
    [name |-> "MtComplications", value |-> <<"M","T","_","C","O","M","P","L","I","C","A","T","I","O","N","S">>,
     aliases |-> {}],
    [name |-> "ThrombolysisDrugs", value |-> <<"T","H","R","O","M","B","O","L","Y","S","I","S","_","D","R","U","G","S">>,
     aliases |-> {}],
    [name |-> "ThrombolysisDrugDose", value |-> <<"T","H","R","O","M","B","O","L","Y","S","I","S","_","D","R","U","G","_","D","O","S","E">>,
     aliases |-> {}],
    [name |-> "ThrombolysisApplicationDepartment", value |-> <<"T","H","R","O","M","B","O","L","Y","S","I","S","_","A","P","P","L","I","C","A","T","I","O","N","_","D","E","P","A","R","T","M","E","N","T">>,
     aliases |-> {}],
    [name |-> "PostRecanalizationFindings", value |-> <<"P","O","S","T","_","R","E","C","A","N","A","L","I","Z","A","T","I","O","N","_","F","I","N","D","I","N","G","S">>,
     aliases |-> {}],
    [name |-> "PostRecanalizationFindingType", value |-> <<"P","O","S","T","_","R","E","C","A","N","A","L","I","Z","A","T","I","O","N","_","F","I","N","D","I","N","G","_","T","Y","P","E">>,
     aliases |-> {}],
    [name |-> "HemorrhagicTransformation", value |-> <<"H","E","M","O","R","R","H","A","G","I","C","_","T","R","A","N","S","F","O","R","M","A","T","I","O","N">>,
     aliases |-> {}],
    [name |-> "TiaClinicalSymptoms", value |-> <<"T","I","A","_","C","L","I","N","I","C","A","L","_","S","Y","M","P","T","O","M","S">>,
     aliases |-> {}],
    [name |-> "TiaSymptomsDuration", value |-> <<"T","I","A","_","S","Y","M","P","T","O","M","S","_","D","U","R","A","T","I","O","N">>,
     aliases |-> {}],
    [name |-> "BleedingSourceFound", value |-> <<"B","L","E","E","D","I","N","G","_","S","O","U","R","C","E","_","F","O","U","N","D">>,
     aliases |-> {}],
    [name |-> "IchBleedingVolume", value |-> <<"I","C","H","_","B","L","E","E","D","I","N","G","_","V","O","L","U","M","E">>,
     aliases |-> {}],
    [name |-> "IchScore", value |-> <<"I","C","H","_","S","C","O","R","E">>,
     aliases |-> {}],
    [name |-> "IchTreatment", value |-> <<"I","C","H","_","T","R","E","A","T","M","E","N","T">>,
     aliases |-> {}],
    [name |-> "IchTreatmentType", value |-> <<"I","C","H","_","T","R","E","A","T","M","E","N","T","_","T","Y","P","E">>,
     aliases |-> {}],
    [name |-> "IchTreatmentTypeExtended", value |-> <<"I","C","H","_","T","R","E","A","T","M","E","N","T","_","T","Y","P","E","_","E","X","T","E","N","D","E","D">>,
     aliases |-> {}],
    [name |-> "BleedingReasonFound", value |-> <<"B","L","E","E","D","I","N","G","_","R","E","A","S","O","N","_","F","O","U","N","D">>,
     aliases |-> {}],
    [name |-> "BleedingReasonType", value |-> <<"B","L","E","E","D","I","N","G","_","R","E","A","S","O","N","_","T","Y","P","E">>,
     aliases |-> {}],
    [name |-> "BleedingAntidoteToAnticoagulants", value |-> <<"B","L","E","E","D","I","N","G","_","A","N","T","I","D","O","T","E","_","T","O","_","A","N","T","I","C","O","A","G","U","L","A","N","T","S">>,
     aliases |-> {}],
    [name |-> "AnticoagulantReversal", value |-> <<"A","N","T","I","C","O","A","G","U","L","A","N","T","_","R","E","V","E","R","S","A","L">>,
     aliases |-> {}],
    [name |-> "AnticoagulantReversalGiven", value |-> <<"A","N","T","I","C","O","A","G","U","L","A","N","T","_","R","E","V","E","R","S","A","L","_","G","I","V","E","N">>,
     aliases |-> {}],
    [name |-> "IntraventicularHemorrhage", value |-> <<"I","N","T","R","A","V","E","N","T","I","C","U","L","A","R","_","H","E","M","O","R","R","H","A","G","E">>,
     aliases |-> {}],
    [name |-> "InfratentorialHemorrhage", value |-> <<"I","N","F","R","A","T","E","N","T","O","R","I","A","L","_","H","E","M","O","R","R","H","A","G","E">>,
     aliases |-> {}],
    [name |-> "SahTreatment", value |-> <<"S","A","H","_","T","R","E","A","T","M","E","N","T">>,
     aliases |-> {}],
    [name |-> "SahTreatmentType", value |-> <<"S","A","H","_","T","R","E","A","T","M","E","N","T","_","T","Y","P","E">>,
     aliases |-> {}],
    [name |-> "Nimodipine", value |-> <<"N","I","M","O","D","I","P","I","N","E">>,
     aliases |-> {}],
    [name |-> "HuntHessScore", value |-> <<"H","U","N","T","_","H","E","S","S","_","S","C","O","R","E">>,
     aliases |-> {}],
    [name |-> "CvtTreatment", value |-> <<"C","V","T","_","T","R","E","A","T","M","E","N","T">>,
     aliases |-> {}],
    [name |-> "CvtTreatmentType", value |-> <<"C","V","T","_","T","R","E","A","T","M","E","N","T","_","T","Y","P","E">>,
     aliases |-> {}],
    [name |-> "PostAcuteCare", value |-> <<"P","O","S","T","_","A","C","U","T","E","_","C","A","R","E">>,
     aliases |-> {}],
    [name |-> "Craniectomy", value |-> <<"C","R","A","N","I","E","C","T","O","M","Y">>,
     aliases |-> {}],
    [name |-> "CraniectomyAgeGt60", value |-> <<"C","R","A","N","I","E","C","T","O","M","Y","_","A","G","E","_","G","T","6","0">>,
     aliases |-> {}],
    [name |-> "CarotidArteriesImaging", value |-> <<"C","A","R","O","T","I","D","_","A","R","T","E","R","I","E","S","_","I","M","A","G","I","N","G">>,
     aliases |-> {}],
    [name |-> "CarotidStenosis", value |-> <<"C","A","R","O","T","I","D","_","S","T","E","N","O","S","I","S">>,
     aliases |-> {}],
    [name |-> "CarotidStenosisLevel", value |-> <<"C","A","R","O","T","I","D","_","S","T","E","N","O","S","I","S","_","L","E","V","E","L">>,
     aliases |-> {}],
    [name |-> "CarotidEndarterectomy", value |-> <<"C","A","R","O","T","I","D","_","E","N","D","A","R","T","E","R","E","C","T","O","M","Y">>,
     aliases |-> {}],
    [name |-> "CarotidEndarterectomyStenosisGt70", value |-> <<"C","A","R","O","T","I","D","_","E","N","D","A","R","T","E","R","E","C","T","O","M","Y","_","S","T","E","N","O","S","I","S","_","G","T","7","0">>,
     aliases |-> {}],
    [name |-> "AtrialFibrilationFlutter", value |-> <<"A","T","R","I","A","L","_","F","I","B","R","I","L","A","T","I","O","N","_","F","L","U","T","T","E","R">>,
     aliases |-> {}],
    [name |-> "StrokeEtiologyKnownAis", value |-> <<"S","T","R","O","K","E","_","E","T","I","O","L","O","G","Y","_","K","N","O","W","N","_","A","I","S">>,
     aliases |-> {}],
    [name |-> "StrokeEtiologyTypeAis", value |-> <<"S","T","R","O","K","E","_","E","T","I","O","L","O","G","Y","_","T","Y","P","E","_","A","I","S">>,
     aliases |-> {}],
    [name |-> "StrokeEtiologyKnownAisTia", value |-> <<"S","T","R","O","K","E","_","E","T","I","O","L","O","G","Y","_","K","N","O","W","N","_","A","I","S","_","T","I","A">>,
     aliases |-> {}],
    [name |-> "StrokeEtiologyTypeAisTia", value |-> <<"S","T","R","O","K","E","_","E","T","I","O","L","O","G","Y","_","T","Y","P","E","_","A","I","S","_","T","I","A">>,
     aliases |-> {}],
    [name |-> "VteInterventionAis", value |-> <<"V","T","E","_","I","N","T","E","R","V","E","N","T","I","O","N","_","A","I","S">>,
     aliases |-> {}],
    [name |-> "VteInterventionIch", value |-> <<"V","T","E","_","I","N","T","E","R","V","E","N","T","I","O","N","_","I","C","H">>,
     aliases |-> {}],
    [name |-> "VteInterventionTypeAis", value |-> <<"V","T","E","_","I","N","T","E","R","V","E","N","T","I","O","N","_","T","Y","P","E","_","A","I","S">>,
     aliases |-> {}],
    [name |-> "VteInterventionTypeIch", value |-> <<"V","T","E","_","I","N","T","E","R","V","E","N","T","I","O","N","_","T","Y","P","E","_","I","C","H">>,
     aliases |-> {}],
    [name |-> "PostStrokeComplications", value |-> <<"P","O","S","T","_","S","T","R","O","K","E","_","C","O","M","P","L","I","C","A","T","I","O","N","S">>,
     aliases |-> {}],
    [name |-> "PostStrokeComplicationsType", value |-> <<"P","O","S","T","_","S","T","R","O","K","E","_","C","O","M","P","L","I","C","A","T","I","O","N","S","_","T","Y","P","E">>,
     aliases |-> {}],
    [name |-> "Day_1TemperatureChecks", value |-> <<"D","A","Y","_","1","_","T","E","M","P","E","R","A","T","U","R","E","_","C","H","E","C","K","S">>,
     aliases |-> {}],
    [name |-> "Day_2TemperatureChecks", value |-> <<"D","A","Y","_","2","_","T","E","M","P","E","R","A","T","U","R","E","_","C","H","E","C","K","S">>,
     aliases |-> {}],
    [name |-> "Day_3TemperatureChecks", value |-> <<"D","A","Y","_","3","_","T","E","M","P","E","R","A","T","U","R","E","_","C","H","E","C","K","S">>,
     aliases |-> {}],
    [name |-> "ParacetamolOnFever", value |-> <<"P","A","R","A","C","E","T","A","M","O","L","_","O","N","_","F","E","V","E","R">>,
     aliases |-> {}],
    [name |-> "Day_1HyperglycemiaChecks", value |-> <<"D","A","Y","_","1","_","H","Y","P","E","R","G","L","Y","C","E","M","I","A","_","C","H","E","C","K","S">>,
     aliases |-> {}],
    [name |-> "Day_2HyperglycemiaChecks", value |-> <<"D","A","Y","_","2","_","H","Y","P","E","R","G","L","Y","C","E","M","I","A","_","C","H","E","C","K","S">>,
     aliases |-> {}],
    [name |-> "Day_3HyperglycemiaChecks", value |-> <<"D","A","Y","_","3","_","H","Y","P","E","R","G","L","Y","C","E","M","I","A","_","C","H","E","C","K","S">>,
     aliases |-> {}],
    [name |-> "InsulinOnHyperglycemia", value |-> <<"I","N","S","U","L","I","N","_","O","N","_","H","Y","P","E","R","G","L","Y","C","E","M","I","A">>,
     aliases |-> {}],
    [name |-> "SwallowingScreening", value |-> <<"S","W","A","L","L","O","W","I","N","G","_","S","C","R","E","E","N","I","N","G">>,
     aliases |-> {}],
    [name |-> "SwallowingScreeningType", value |-> <<"S","W","A","L","L","O","W","I","N","G","_","S","C","R","E","E","N","I","N","G","_","T","Y","P","E">>,
     aliases |-> {}],
    [name |-> "SwallowingScreeningPerformer", value |-> <<"S","W","A","L","L","O","W","I","N","G","_","S","C","R","E","E","N","I","N","G","_","P","E","R","F","O","R","M","E","R">>,
     aliases |-> {}],
    [name |-> "Physiotherapy", value |-> <<"P","H","Y","S","I","O","T","H","E","R","A","P","Y">>,
     aliases |-> {}],
    [name |-> "OccupationalTherapy", value |-> <<"O","C","C","U","P","A","T","I","O","N","A","L","_","T","H","E","R","A","P","Y">>,
     aliases |-> {}],
    [name |-> "SpeechTherapy", value |-> <<"S","P","E","E","C","H","_","T","H","E","R","A","P","Y">>,
     aliases |-> {}],
    [name |-> "DischargeDestination", value |-> <<"D","I","S","C","H","A","R","G","E","_","D","E","S","T","I","N","A","T","I","O","N">>,
     aliases |-> {}],
    [name |-> "DischargeMedications", value |-> <<"D","I","S","C","H","A","R","G","E","_","M","E","D","I","C","A","T","I","O","N","S">>,
     aliases |-> {}],
    [name |-> "DischargeAnticoagulantsAfib", value |-> <<"D","I","S","C","H","A","R","G","E","_","A","N","T","I","C","O","A","G","U","L","A","N","T","S","_","A","F","I","B">>,
     aliases |-> {}],
    [name |-> "DischargeAnticoagulantTypeAfib", value |-> <<"D","I","S","C","H","A","R","G","E","_","A","N","T","I","C","O","A","G","U","L","A","N","T","_","T","Y","P","E","_","A","F","I","B">>,
     aliases |-> {}],
    [name |-> "DischargeAntiplateletsNoAfib", value |-> <<"D","I","S","C","H","A","R","G","E","_","A","N","T","I","P","L","A","T","E","L","E","T","S","_","N","O","_","A","F","I","B">>,
     aliases |-> {}],
    [name |-> "DischargeAntiplateletTypeNoAfib", value |-> <<"D","I","S","C","H","A","R","G","E","_","A","N","T","I","P","L","A","T","E","L","E","T","_","T","Y","P","E","_","N","O","_","A","F","I","B">>,
     aliases |-> {}],
    [name |-> "DischargeMrs", value |-> <<"D","I","S","C","H","A","R","G","E","_","M","R","S">>,
     aliases |-> {}],
    [name |-> "SmokingCessation", value |-> <<"S","M","O","K","I","N","G","_","C","E","S","S","A","T","I","O","N">>,
     aliases |-> {}],
    [name |-> "StrokeManagementAppointment", value |-> <<"S","T","R","O","K","E","_","M","A","N","A","G","E","M","E","N","T","_","A","P","P","O","I","N","T","M","E","N","T">>,
     aliases |-> {}],
    [name |-> "ThreeMonthMrs", value |-> <<"T","H","R","E","E","_","M","O","N","T","H","_","M","R","S">>,
     aliases |-> {}],
    [name |-> "HospitalStay", value |-> <<"H","O","S","P","I","T","A","L","_","S","T","A","Y">>,
     aliases |-> {}],
    [name |-> "DischargeNihss", value |-> <<"D","I","S","C","H","A","R","G","E","_","N","I","H","S","S">>,
     aliases |-> {}],
    [name |-> "Dti", value |-> <<"D","T","I">>,
     aliases |-> {"door to imaging", "time to scan", "time to ct", "door-to-imaging time", "time until imaging", "time to first imaging", "time to initial scan", "initial ct timing"}],
    [name |-> "OnsetToDoor", value |-> <<"O","N","S","E","T","_","T","O","_","D","O","O","R">>,
     aliases |-> {}],
    [name |-> "DoorToIvAntihypertensiveInitiation", value |-> <<"D","O","O","R","_","T","O","_","I","V","_","A","N","T","I","H","Y","P","E","R","T","E","N","S","I","V","E","_","I","N","I","T","I","A","T","I","O","N">>,
     aliases |-> {}],
    [name |-> "DoorToSysBpLt140", value |-> <<"D","O","O","R","_","T","O","_","S","Y","S","_","B","P","_","L","T","1","4","0">>,
     aliases |-> {}],
    [name |-> "IvAntihypertensiveToSysBpLt140", value |-> <<"I","V","_","A","N","T","I","H","Y","P","E","R","T","E","N","S","I","V","E","_","T","O","_","S","Y","S","_","B","P","_","L","T","1","4","0">>,
     aliases |-> {}],
    [name |-> "IvAntihypertensive", value |-> <<"I","V","_","A","N","T","I","H","Y","P","E","R","T","E","N","S","I","V","E">>,
     aliases |-> {}],
    [name |-> "AchievingSystolicPressureLt140", value |-> <<"A","C","H","I","E","V","I","N","G","_","S","Y","S","T","O","L","I","C","_","P","R","E","S","S","U","R","E","_","L","T","1","4","0">>,
     aliases |-> {}],
    [name |-> "DoorToReversalInitiation", value |-> <<"D","O","O","R","_","T","O","_","R","E","V","E","R","S","A","L","_","I","N","I","T","I","A","T","I","O","N">>,
     aliases |-> {}],
    [name |-> "NoAnticoagulationReversalReason", value |-> <<"N","O","_","A","N","T","I","C","O","A","G","U","L","A","T","I","O","N","_","R","E","V","E","R","S","A","L","_","R","E","A","S","O","N">>,
     aliases |-> {}],
    [name |-> "NoIchTreatmentReason", value |-> <<"N","O","_","I","C","H","_","T","R","E","A","T","M","E","N","T","_","R","E","A","S","O","N">>,
     aliases |-> {}],
    [name |-> "DoorToEvacuation", value |-> <<"D","O","O","R","_","T","O","_","E","V","A","C","U","A","T","I","O","N">>,
     aliases |-> {}]
    >>

\* metric_models.py lines 152-156
GroupProperty == <<
    [name |-> "EMSPrenotification", value |-> <<"E","M","S","_","P","R","E","N","O","T","I","F","I","C","A","T","I","O","N">>,
     aliases |-> {"ems prenotification", "ems notified", "emergency pre-alert", "ambulance notified"}],
    [name |-> "FirstContactPlace", value |-> <<"F","I","R","S","T","_","C","O","N","T","A","C","T","_","P","L","A","C","E">>,
     aliases |-> {"first contact place", "place of first contact", "initial point of contact", "first seen"}],
    [name |-> "IVTApplicationDepartment", value |-> <<"I","V","T","_","A","P","P","L","I","C","A","T","I","O","N","_","D","E","P","A","R","T","M","E","N","T">>,
     aliases |-> {"ivt department", "thrombolysis department", "tpa department", "treatment department"}],
    [name |-> "INRMode", value |-> <<"I","N","R","_","M","O","D","E">>,
     aliases |-> {"inr measurement method", "coagulation mode", "how inr was measured", "inr method"}]
    >>

\* a Distribution that adjusts refused values instead of failing
Distribution_Clamp(bin_count, lower_, upper_) ==
    [err |-> "",
     val |-> [bin_count |-> IF bin_count <= 0 THEN 1 ELSE bin_count,
              lower |-> IF lower_ >= upper_ THEN upper_ - 1 ELSE lower_,
              upper |-> upper_]]

\* Distribution and its validator check_bounds: a ValueError when
\* lower >= upper or bin_count <= 0
Distribution(bin_count, lower_, upper_) ==
    IF lower_ >= upper_ THEN [err |-> "ValueError", val |-> None]
    ELSE IF bin_count <= 0 THEN [err |-> "ValueError", val |-> None]
    ELSE [err |-> "", val |-> [bin_count |-> bin_count, lower |-> lower_, upper |-> upper_]]

\* Metric(kpi=..., stats=..., distribution=...): kpi is the member's value
Metric(kpi, stats, distribution) == [kpi |-> kpi, stats |-> stats, distribution |-> distribution]

\* MetricsCollection(metrics=..., group_by=...): group_by is the member's
\* value, "" for None
MetricsCollection(metrics, group_by) == [metrics |-> metrics, group_by |-> group_by]

\* FilterResponse(logicalFilter=...)
FilterResponse(logicalFilter) == [logicalFilter |-> logicalFilter]

\* MetricResponse(metricsCollection=...)
MetricResponse(metricsCollection) == [metricsCollection |-> metricsCollection]

-----------------------------------------------------------------------------
(* parse_metrics and build_metric_response: cli_token_parser.py            *)

FirstIndex(s, sep) == CHOOSE i \in 1..Len(s) : s[i] = sep /\ \A j \in 1..(i - 1) : s[j] # sep

\* str.split(sep)
RECURSIVE split(_, _)
split(s, sep) ==
    IF \E i \in 1..Len(s) : s[i] = sep
    THEN <<SubSeq(s, 1, FirstIndex(s, sep) - 1)>>
         \o split(SubSeq(s, FirstIndex(s, sep) + 1, Len(s)), sep)
    ELSE <<s>>

\* the Distribution of the fields kpi_str, bin_count, lower, upper of a spec:
\* the unpacking needs exactly four fields
FieldsDistribution(fields) ==
    IF Len(fields) # 4 THEN [err |-> "ValueError", val |-> None]
    ELSE Try(int(fields[2]), LAMBDA bin_count :
         Try(int(fields[3]), LAMBDA lower_ :
         Try(int(fields[4]), LAMBDA upper_ :
             Distribution(bin_count.val, lower_.val, upper_.val))))

\* a lookup that finds no entry
dict_get_Missing(dist_map, key) == None

\* dist_map.get(key) on the entries written so far: the last one under key
dict_get(dist_map, key) ==
    IF \E i \in 1..Len(dist_map) : dist_map[i].key = key
    THEN dist_map[CHOOSE i \in 1..Len(dist_map) :
                     dist_map[i].key = key /\ \A j \in (i + 1)..Len(dist_map) : dist_map[j].key # key].value
    ELSE None

\* dist_map[kpi_str.upper()] = Distribution(...)
DistEntry(fields, dist) == [key |-> Str(upper(fields[1])), value |-> dist]

\* the first loop of parse_metrics; whatever a spec raises is re-raised as a
\* ValueError
RECURSIVE DistMap(_, _, _)
DistMap(distribution, i, dist_map) ==
    IF i > Len(distribution) THEN Value(dist_map)
    ELSE Try(AsValueError(FieldsDistribution(split(distribution[i], ":"))), LAMBDA dist :
             DistMap(distribution, i + 1,
                     Append(dist_map, DistEntry(split(distribution[i], ":"), dist.val))))

\* the second loop of parse_metrics: one Metric per name, an unknown name is
\* a ValueError
RECURSIVE MetricList(_, _, _, _, _)
MetricList(metrics, i, dist_map, stats, result_) ==
    IF i > Len(metrics) THEN Value(result_)
    ELSE Try(AsValueError(from_value(KPI, metrics[i])), LAMBDA kpi :
             MetricList(metrics, i + 1, dist_map, stats,
                        Append(result_, Metric(kpi.val, stats, dict_get(dist_map, kpi.val)))))

parse_metrics(metrics, distribution, stats) ==
    Try(DistMap(distribution, 1, <<>>), LAMBDA dist_map :
        MetricList(metrics, 1, dist_map.val, stats, <<>>))

\* group is a text, <<>> when no group is given
build_metric_response(metrics, distribution, stats, group) ==
    Try(parse_metrics(metrics, distribution, stats), LAMBDA parsed_metrics :
        IF group = <<>> THEN Value(MetricResponse(MetricsCollection(parsed_metrics.val, "")))
        ELSE Try(AsValueError(from_value(GroupProperty, group)), LAMBDA group_by :
                 Value(MetricResponse(MetricsCollection(parsed_metrics.val, group_by.val)))))

-----------------------------------------------------------------------------
(* EntityToInstructorTranslator.py.  An entity is a dict with the keys     *)
(* entity, value and role, or some of them: get() of a missing key is      *)
(* None.  A dict is a function on its keys.                                *)

\* MetricCalculatorResponse(FilterResponse=..., MetricResponse=...): models.py
MetricCalculatorResponse(FilterResponse_, MetricResponse_) ==
    [FilterResponse |-> FilterResponse_, MetricResponse |-> MetricResponse_]

\* self.exclusion_keywords
exclusion_keywords ==
    << <<"e","x","c","l","u","d","e">>, <<"e","x","c","l","u","d","i","n","g">>,
       <<"b","u","t"," ","n","o","t">>, <<"e","x","c","e","p","t">>,
       <<"w","i","t","h","o","u","t">>, <<"n","o","t">>, <<"d","o","n","t">>,
       <<"d","o","n","'","t">>, <<"r","e","m","o","v","e">>, <<"s","k","i","p">> >>

\* keyword in s
Contains(s, keyword) ==
    \E i \in 0..(Len(s) - Len(keyword)) : SubSeq(s, i + 1, i + Len(keyword)) = keyword

has_exclusion_context(message) ==
    \E k \in 1..Len(exclusion_keywords) : Contains(lower(message), exclusion_keywords[k])

\* d[key] = value
DictSet(d, key, value) == [k \in DOMAIN d \cup {key} |-> IF k = key THEN value ELSE d[k]]

\* the dict organized starts from; chart_type and group_by are <<>> for None
Organized ==
    [kpis |-> <<>>, sex_filters |-> <<>>, stroke_types |-> <<>>, boolean_filters |-> <<>>,
     chart_type |-> <<>>, group_by |-> <<>>, age_range |-> <<>>, date_range |-> <<>>,
     nihss_range |-> <<>>]

\* entity.get("role") is not None and not empty
HasRole(entity) == "role" \in DOMAIN entity /\ entity.role # ""

\* the body of the loop of _organize_entities; int(value) may raise
OrganizeEntity(organized, entity) ==
    IF "value" \notin DOMAIN entity THEN Value(organized)
    ELSE IF entity.entity = "kpi"
    THEN Value([organized EXCEPT !.kpis = Append(@, entity.value)])
    ELSE IF entity.entity = "sex"
    THEN Value([organized EXCEPT !.sex_filters = Append(@, entity.value)])
    ELSE IF entity.entity = "stroke_type"
    THEN Value([organized EXCEPT !.stroke_types = Append(@, entity.value)])
    ELSE IF entity.entity = "boolean_type"
    THEN Value([organized EXCEPT !.boolean_filters = Append(@, entity.value)])
    ELSE IF entity.entity = "chart_type"
    THEN Value([organized EXCEPT !.chart_type = entity.value])
    ELSE IF entity.entity = "group_by"
    THEN Value([organized EXCEPT !.group_by = entity.value])
    ELSE IF entity.entity = "age" /\ HasRole(entity)
    THEN Try(int(entity.value), LAMBDA v :
             Value([organized EXCEPT !.age_range = DictSet(@, entity.role, v.val)]))
    ELSE IF entity.entity = "date" /\ HasRole(entity)
    THEN Value([organized EXCEPT !.date_range = DictSet(@, entity.role, entity.value)])
    ELSE IF entity.entity = "nihss" /\ HasRole(entity)
    THEN Try(int(entity.value), LAMBDA v :
             Value([organized EXCEPT !.nihss_range = DictSet(@, entity.role, v.val)]))
    ELSE Value(organized)

RECURSIVE OrganizeFrom(_, _, _)
OrganizeFrom(entities, i, organized) ==
    IF i > Len(entities) THEN Value(organized)
    ELSE Try(OrganizeEntity(organized, entities[i]), LAMBDA o :
             OrganizeFrom(entities, i + 1, o.val))

organize_entities(entities) == OrganizeFrom(entities, 1, Organized)

\* age filters in the order upper, lower
AgeFilters_UpperFirst(age_range) ==
    (IF "upper" \in DOMAIN age_range THEN <<IM_AgeFilter("LE", age_range["upper"])>> ELSE <<>>)
    \o (IF "lower" \in DOMAIN age_range THEN <<IM_AgeFilter("GE", age_range["lower"])>> ELSE <<>>)

\* the age filters of _build_filters
AgeFilters(age_range) ==
    (IF "lower" \in DOMAIN age_range THEN <<IM_AgeFilter("GE", age_range["lower"])>> ELSE <<>>)
    \o (IF "upper" \in DOMAIN age_range THEN <<IM_AgeFilter("LE", age_range["upper"])>> ELSE <<>>)

\* the NIHSS filters of _build_filters
NIHSSFilters(nihss_range) ==
    (IF "lower" \in DOMAIN nihss_range THEN <<IM_NIHSSFilter("GE", nihss_range["lower"])>> ELSE <<>>)
    \o (IF "upper" \in DOMAIN nihss_range THEN <<IM_NIHSSFilter("LE", nihss_range["upper"])>> ELSE <<>>)

\* filters.append(DateFilter(operator=..., value=date_range[role])) when role
\* is a key; the validation error of DateFilter propagates
DateFilterOf(date_range, role, operator, filters) ==
    IF role \in DOMAIN date_range
    THEN Try(IM_DateFilter(operator, date_range[role]), LAMBDA f : Value(Append(filters, f.val)))
    ELSE Value(filters)

\* a pass that appends the object whatever the lookup gave
Caught_Keep(objects, r, object) == Append(objects, object)

\* one pass of a try block that appends a filter object: a ValueError of the
\* member lookup r is logged and the value is left out
Caught(objects, r, object) == IF r.err # "" THEN objects ELSE Append(objects, object)

RECURSIVE SexFilterObjects(_, _, _)
SexFilterObjects(sex_filters, i, objects) ==
    IF i > Len(sex_filters) THEN objects
    ELSE SexFilterObjects(sex_filters, i + 1,
             Caught(objects, from_value(SexProperty, sex_filters[i]),
                    IM_SexFilter(from_value(SexProperty, sex_filters[i]).val)))

RECURSIVE StrokeFilterObjects(_, _, _)
StrokeFilterObjects(stroke_types, i, objects) ==
    IF i > Len(stroke_types) THEN objects
    ELSE StrokeFilterObjects(stroke_types, i + 1,
             Caught(objects, from_value(StrokeProperty, stroke_types[i]),
                    IM_StrokeFilter(from_value(StrokeProperty, stroke_types[i]).val)))

RECURSIVE BooleanFilterObjects(_, _, _)
BooleanFilterObjects(boolean_filters, i, objects) ==
    IF i > Len(boolean_filters) THEN objects
    ELSE BooleanFilterObjects(boolean_filters, i + 1,
             Caught(objects, from_value(BooleanProperty, boolean_filters[i]),
                    IM_BooleanFilter(from_value(BooleanProperty, boolean_filters[i]).val, TRUE)))

\* filter objects with one OR over each of them
Included_OrEach(objects) ==
    [i \in 1..Len(objects) |-> LogicalFilter("OR", <<objects[i]>>)]

\* the filter objects of one kind as they are included: none, the single
\* object, or one OR over all of them
Included(objects) ==
    IF objects = <<>> THEN <<>>
    ELSE IF Len(objects) = 1 THEN objects
    ELSE <<LogicalFilter("OR", objects)>>

\* stroke filter objects under one NOT over all of them
Excluded_Whole(objects) ==
    IF objects = <<>> THEN <<>> ELSE <<LogicalFilter("NOT", objects)>>

\* the stroke filter objects as they are excluded: one NOT over each
Excluded(objects) ==
    [i \in 1..Len(objects) |-> LogicalFilter("NOT", <<objects[i]>>)]

\* the filters after the enum kinds: sex, stroke types, boolean properties
EnumFilters(organized, is_exclusion) ==
    Included(SexFilterObjects(organized.sex_filters, 1, <<>>))
    \o (IF is_exclusion
        THEN Excluded(StrokeFilterObjects(organized.stroke_types, 1, <<>>))
        ELSE Included(StrokeFilterObjects(organized.stroke_types, 1, <<>>)))
    \o BooleanFilterObjects(organized.boolean_filters, 1, <<>>)

\* "Combine all filters"
Combined(filters) ==
    IF filters = <<>> THEN FilterResponse(None)
    ELSE FilterResponse(LogicalFilter("AND", filters))

build_filters(organized, is_exclusion) ==
    Try(DateFilterOf(organized.date_range, "lower", "GE",
                     AgeFilters(organized.age_range) \o NIHSSFilters(organized.nihss_range)),
        LAMBDA lower_ :
    Try(DateFilterOf(organized.date_range, "upper", "LE", lower_.val), LAMBDA filters :
        Value(Combined(filters.val \o EnumFilters(organized, is_exclusion)))))

\* the defaults of the KPIs that get a distribution and stats
DefaultDistribution(kpi) ==
    CASE kpi = "AGE" -> Distribution(10, 0, 100)
      [] kpi = "DTN" -> Distribution(12, 0, 120)
      [] kpi = "DIDO" -> Distribution(20, 0, 200)
      [] kpi = "ADMISSION_NIHSS" -> Distribution(21, 0, 21)
      [] kpi = "DTI" -> Distribution(10, 0, 100)

\* the Metric of one resolved KPI
KpiMetric(kpi) ==
    IF kpi \in {"AGE", "DTN", "DIDO", "ADMISSION_NIHSS", "DTI"}
    THEN Metric(kpi, TRUE, DefaultDistribution(kpi).val)
    ELSE Metric(kpi, FALSE, None)

RECURSIVE KpiMetrics(_, _, _)
KpiMetrics(kpis, i, metrics) ==
    IF i > Len(kpis) THEN metrics
    ELSE KpiMetrics(kpis, i + 1,
             Caught(metrics, from_value(KPI, kpis[i]), KpiMetric(from_value(KPI, kpis[i]).val)))

\* group_by_enum: "" for None
GroupByEnum(group_by) ==
    IF group_by = <<>> THEN ""
    ELSE from_value(GroupProperty, group_by).val

\* the response for the metrics collected
MetricsResponse(metrics, group_by) ==
    IF metrics = <<>> THEN MetricResponse(None)
    ELSE MetricResponse(MetricsCollection(metrics, GroupByEnum(group_by)))

build_metrics(organized) == MetricsResponse(KpiMetrics(organized.kpis, 1, <<>>), organized.group_by)

translate(entities, user_message) ==
    Try(organize_entities(entities), LAMBDA organized :
    Try(build_filters(organized.val, has_exclusion_context(user_message)),
        LAMBDA filter_response :
        Value(MetricCalculatorResponse(filter_response.val, build_metrics(organized.val)))))

-----------------------------------------------------------------------------
(* FilterParser: cli_token_parser.py.  self.tokens and self.pos are passed *)
(* explicitly; every method returns [err, pos, val]: the exception type    *)
(* ("" when it returns normally), self.pos afterwards, the value returned. *)

Raise(type, pos)  == [err |-> type, pos |-> pos, val |-> None]
Return(val, pos)  == [err |-> "", pos |-> pos, val |-> val]

\* r is the outcome of a call: an exception propagates, a value is handed on
Bind(r, F(_)) == IF r.err # "" THEN r ELSE F(r)

\* the outcome [err, val] of a call that leaves self.pos at pos
At(r, pos) == [err |-> r.err, pos |-> pos, val |-> IF r.err # "" THEN None ELSE r.val]

EOF_TOKEN == <<"EOF", <<>>>>

peek(toks, pos) == IF pos < Len(toks) THEN toks[pos + 1] ELSE EOF_TOKEN

\* expected_type "" stands for None: any token, EOF included, is taken
consume(toks, pos, expected_type) ==
    IF expected_type # "" /\ peek(toks, pos)[1] # expected_type
    THEN Raise("SyntaxError", pos)
    ELSE Return(peek(toks, pos), pos + 1)

\* EnumDispatch comparing the value token with "true" as it is written
EnumDispatch_ExactTrue(sex, stroke, property, value_str, pos) ==
    IF sex.err = "" THEN Return(IM_SexFilter(sex.val), pos)
    ELSE IF stroke.err = "" THEN Return(IM_StrokeFilter(stroke.val), pos)
    ELSE IF property.err = ""
    THEN Return(IM_BooleanFilter(property.val, Str(value_str) = "true"), pos)
    ELSE Raise("ValueError", pos)

\* EnumDispatch that falls back to a leaf when no family matches
EnumDispatch_Fallback(sex, stroke, property, value_str, pos) ==
    IF sex.err = "" THEN Return(IM_SexFilter(sex.val), pos)
    ELSE IF stroke.err = "" THEN Return(IM_StrokeFilter(stroke.val), pos)
    ELSE IF property.err = ""
    THEN Return(IM_BooleanFilter(property.val, Str(lower(value_str)) = "true"), pos)
    ELSE Return(IM_SexFilter("UNKNOWN"), pos)

\* EnumDispatch with the Stroke family tried before the Sex family
EnumDispatch_StrokeFirst(sex, stroke, property, value_str, pos) ==
    IF stroke.err = "" THEN Return(IM_StrokeFilter(stroke.val), pos)
    ELSE IF sex.err = "" THEN Return(IM_SexFilter(sex.val), pos)
    ELSE IF property.err = ""
    THEN Return(IM_BooleanFilter(property.val, Str(lower(value_str)) = "true"), pos)
    ELSE Raise("ValueError", pos)

\* the three try blocks of condition(): the value in the Sex family, then in
\* the Stroke family, then the identifier in the Boolean family
EnumDispatch(sex, stroke, property, value_str, pos) ==
    IF sex.err = "" THEN Return(IM_SexFilter(sex.val), pos)
    ELSE IF stroke.err = "" THEN Return(IM_StrokeFilter(stroke.val), pos)
    ELSE IF property.err = ""
    THEN Return(IM_BooleanFilter(property.val, Str(lower(value_str)) = "true"), pos)
    ELSE Raise("ValueError", pos)

\* Dispatch with the enum families tried before the identifier
Dispatch_EnumFirst(ident_str, comparison, value_str, pos) ==
    IF from_value(SexProperty, value_str).err = "" \/ from_value(StrokeProperty, value_str).err = ""
    THEN EnumDispatch(from_value(SexProperty, value_str),
                      from_value(StrokeProperty, value_str),
                      from_value(BooleanProperty, ident_str), value_str, pos)
    ELSE IF Str(ident_str) = "AGE"
    THEN Bind(At(int(value_str), pos), LAMBDA n : Return(IM_AgeFilter(comparison, n.val), pos))
    ELSE IF Str(ident_str) = "NIHSS"
    THEN Bind(At(int(value_str), pos), LAMBDA n : Return(IM_NIHSSFilter(comparison, n.val), pos))
    ELSE IF Str(ident_str) = "DISCHARGEDATE"
    THEN At(IM_DateFilter(comparison, value_str), pos)
    ELSE Raise("ValueError", pos)

\* the dispatch of condition() once the three tokens are consumed
Dispatch(ident_str, comparison, value_str, pos) ==
    IF Str(ident_str) = "AGE"
    THEN Bind(At(int(value_str), pos), LAMBDA n : Return(IM_AgeFilter(comparison, n.val), pos))
    ELSE IF Str(ident_str) = "NIHSS"
    THEN Bind(At(int(value_str), pos), LAMBDA n : Return(IM_NIHSSFilter(comparison, n.val), pos))
    ELSE IF Str(ident_str) = "DISCHARGEDATE"
    THEN At(IM_DateFilter(comparison, value_str), pos)
    ELSE EnumDispatch(from_value(SexProperty, value_str),
                      from_value(StrokeProperty, value_str),
                      from_value(BooleanProperty, ident_str), value_str, pos)

condition(toks, pos) ==
    Bind(consume(toks, pos, "IDENT"), LAMBDA ident_token :
    Bind(consume(toks, ident_token.pos, "COMPARISON"), LAMBDA comp_token :
    Bind(At(from_value(ComparisonProperty, comp_token.val[2]), comp_token.pos), LAMBDA comparison :
    Bind(consume(toks, comp_token.pos, ""), LAMBDA value_token :
         Dispatch(upper(ident_token.val[2]), comparison.val, value_token.val[2], value_token.pos)))))

RECURSIVE filter(_, _), expr(_, _), expr_list_loop(_, _, _)

\* the while loop of expr_list
expr_list_loop(toks, pos, children) ==
    IF peek(toks, pos)[1] = "COMMA"
    THEN Bind(consume(toks, pos, "COMMA"), LAMBDA comma :
         Bind(expr(toks, comma.pos), LAMBDA child :
              expr_list_loop(toks, child.pos, Append(children, child.val))))
    ELSE Return(children, pos)

\* expr_list that returns no child when the list is empty
expr_list_AllowEmpty(toks, pos) ==
    IF peek(toks, pos)[1] = "RPAREN" THEN Return(<<>>, pos)
    ELSE Bind(expr(toks, pos), LAMBDA first : expr_list_loop(toks, first.pos, <<first.val>>))

expr_list(toks, pos) ==
    Bind(expr(toks, pos), LAMBDA first : expr_list_loop(toks, first.pos, <<first.val>>))

expr(toks, pos) ==
    IF peek(toks, pos)[1] = "OPERATOR" THEN filter(toks, pos) ELSE condition(toks, pos)

filter(toks, pos) ==
    Bind(consume(toks, pos, "OPERATOR"), LAMBDA op_token :
    Bind(consume(toks, op_token.pos, "LPAREN"), LAMBDA lparen :
    Bind(expr_list(toks, lparen.pos), LAMBDA children :
    Bind(consume(toks, children.pos, "RPAREN"), LAMBDA rparen :
    Bind(At(from_value(OperatorProperty, op_token.val[2]), rparen.pos), LAMBDA operator :
         Return(LogicalFilter(operator.val, children.val), rparen.pos))))))

\* FilterParser(tokens).parse()
parse(toks) == filter(toks, 0)

parse_filter_string(input_str) == parse(tokenize(input_str))

-----------------------------------------------------------------------------
(* Query builder: graphql_builder.py.  An Enum class is the set of its     *)
(* values; Cls(value) is a ValueError when value is no member's value.     *)

\* graphql_builder.py lines 12-18
GB_Operator == {"GE", "LE", "LT", "GT", "EQ", "NE"}

\* graphql_builder.py lines 26-30
GB_SexProperty == {"MALE", "FEMALE", "OTHER", "UNKNOWN"}

\* graphql_builder.py lines 33-40
GB_StrokeProperty == {
    "ISCHEMIC", "INTRACEREBRAL_HEMORRHAGE", "TRANSIENT_ISCHEMIC",
    "SUBARACHNOID_HEMORRHAGE", "CEREBRAL_VENOUS_THROMBOSIS", "STROKE_MIMICS",
    "UNDETERMINED"}

\* graphql_builder.py lines 48-68
GB_BooleanProperty == {
    "THROMBECTOMY", "THROMBOLYSIS", "BEFORE_ONSET_CILOSTAZOL",
    "BEFORE_ONSET_CLOPIDOGREL", "BEFORE_ONSET_TICAGRELOR",
    "BEFORE_ONSET_TICLOPIDINE", "BEFORE_ONSET_PRASUGREL",
    "BEFORE_ONSET_DIPYRIDAMOLE", "BEFORE_ONSET_OTHER_ANTIPLATELET",
    "BEFORE_ONSET_ANY_ANTIPLATELET", "BEFORE_ONSET_WARFARINS",
    "BEFORE_ONSET_DABIGATRAN", "BEFORE_ONSET_RIVAROXABAN", "BEFORE_ONSET_APIXABAN",
    "BEFORE_ONSET_EDOXABAN", "BEFORE_ONSET_OTHER_ANTICOAGULANT",
    "BEFORE_ONSET_ANY_ANTICOAGULANT", "BEFORE_ONSET_STATIN",
    "BEFORE_ONSET_HEPARIN", "BEFORE_ONSET_CONTRACEPTION"}

\* graphql_builder.py lines 71-72
GB_DateProperty == {"DISCHARGE_DATE"}

\* graphql_builder.py lines 75-79
GB_Group == {"EMS_PRENOTIFICATION", "FIRST_CONTACT_PLACE", "IVT_APPLICATION_DEPARTMENT", "INR_MODE"}

\* graphql_builder.py lines 82-223: the metric ids of the backend
GB_Metric == {
    "AA_DTN_LE60", "AA_DTN_LE45", "AA_DTG_LE120", "AA_DTG_LE90", "AA_RECANALIZATION",
    "AA_IMAGING", "AA_SWALLOWING_SCREENING", "AA_ANTICOAGULANTS", "AA_ANTITHROMBOTICS",
    "AA_STROKE_UNIT", "AGE", "WAKEUP_STROKE", "INHOSPITAL_STROKE", "ARRIVAL_MODE",
    "EMS_PRENOTIFICATION", "ADMISSION_DEPARTMENT", "FIRST_CONTACT_PLACE", "HOSPITALIZED_IN",
    "SEX", "RISK_FACTORS_TYPE", "BEFORE_ONSET_MEDICATION",
    "BEFORE_ONSET_MEDICATION_AIS_TIA", "BEFORE_ONSET_MEDICATION_ICH",
    "BEFORE_ONSET_ANTIPLATELET_TYPE", "BEFORE_ONSET_ANTICOAGULANT_TYPE", "ADMISSION_NIHSS",
    "PRESTROKE_MRS", "GLUCOSE", "CHOLESTEROL", "SYSTOLIC_PRESSURE", "DIASTOLIC_PRESSURE",
    "INR_MODE", "IMAGING_DONE", "IMAGING_TYPE", "OCCLUSION_FOUND", "OCCLUSION_SITE",
    "OLD_INFARCTS_SEEN", "OLD_INFARCTS_TYPE", "PERFUSION_DEFICIT_TYPE", "PERFUSION_CORE",
    "HYPOPERFUSION", "STROKE_TYPE", "STROKE_MIMICS_DIAGNOSIS", "THROMBOLYSIS",
    "THROMBECTOMY", "THROMBOLYSIS_ONLY", "THROMBOLYSIS_AND_THROMBECTOMY", "RECANALIZATION",
    "DTN", "DTG_PRIMARY", "DTG_SECONDARY", "DIDO", "DOOR_TO_REPERFUSION", "MTICI_SCORE",
    "NO_THROMBOLYSIS_REASON", "NO_THROMBECTOMY_REASON", "MT_COMPLICATIONS_TYPE",
    "MT_COMPLICATIONS", "THROMBOLYSIS_DRUGS", "THROMBOLYSIS_DRUG_DOSE",
    "THROMBOLYSIS_APPLICATION_DEPARTMENT", "POST_RECANALIZATION_FINDINGS",
    "POST_RECANALIZATION_FINDING_TYPE", "HEMORRHAGIC_TRANSFORMATION",
    "TIA_CLINICAL_SYMPTOMS", "TIA_SYMPTOMS_DURATION", "BLEEDING_SOURCE_FOUND",
    "ICH_BLEEDING_VOLUME", "ICH_SCORE", "ICH_TREATMENT", "ICH_TREATMENT_TYPE",
    "ICH_TREATMENT_TYPE_EXTENDED", "BLEEDING_REASON_FOUND", "BLEEDING_REASON_TYPE",
    "BLEEDING_ANTIDOTE_TO_ANTICOAGULANTS", "ANTICOAGULANT_REVERSAL",
    "ANTICOAGULANT_REVERSAL_GIVEN", "INTRAVENTICULAR_HEMORRHAGE",
    "INFRATENTORIAL_HEMORRHAGE", "SAH_TREATMENT", "SAH_TREATMENT_TYPE", "NIMODIPINE",
    "HUNT_HESS_SCORE", "CVT_TREATMENT", "CVT_TREATMENT_TYPE", "POST_ACUTE_CARE",
    "CRANIECTOMY", "CRANIECTOMY_AGE_GT60", "CAROTID_ARTERIES_IMAGING", "CAROTID_STENOSIS",
    "CAROTID_STENOSIS_LEVEL", "CAROTID_ENDARTERECTOMY",
    "CAROTID_ENDARTERECTOMY_STENOSIS_GT70", "ATRIAL_FIBRILATION_FLUTTER",
    "STROKE_ETIOLOGY_KNOWN_AIS", "STROKE_ETIOLOGY_TYPE_AIS",
    "STROKE_ETIOLOGY_KNOWN_AIS_TIA", "STROKE_ETIOLOGY_TYPE_AIS_TIA", "VTE_INTERVENTION_AIS",
    "VTE_INTERVENTION_ICH", "VTE_INTERVENTION_TYPE_AIS", "VTE_INTERVENTION_TYPE_ICH",
    "POST_STROKE_COMPLICATIONS", "POST_STROKE_COMPLICATIONS_TYPE",
    "DAY_1_TEMPERATURE_CHECKS", "DAY_2_TEMPERATURE_CHECKS", "DAY_3_TEMPERATURE_CHECKS",
    "PARACETAMOL_ON_FEVER", "DAY_1_HYPERGLYCEMIA_CHECKS", "DAY_2_HYPERGLYCEMIA_CHECKS",
    "DAY_3_HYPERGLYCEMIA_CHECKS", "INSULIN_ON_HYPERGLYCEMIA", "SWALLOWING_SCREENING",
    "SWALLOWING_SCREENING_TYPE", "SWALLOWING_SCREENING_PERFORMER", "PHYSIOTHERAPY",
    "OCCUPATIONAL_THERAPY", "SPEECH_THERAPY", "DISCHARGE_DESTINATION",
    "DISCHARGE_MEDICATIONS", "DISCHARGE_ANTICOAGULANTS_AFIB",
    "DISCHARGE_ANTICOAGULANT_TYPE_AFIB", "DISCHARGE_ANTIPLATELETS_NO_AFIB",
    "DISCHARGE_ANTIPLATELET_TYPE_NO_AFIB", "DISCHARGE_MRS", "SMOKING_CESSATION",
    "STROKE_MANAGEMENT_APPOINTMENT", "THREE_MONTH_MRS", "HOSPITAL_STAY", "DISCHARGE_NIHSS",
    "DTI", "ONSET_TO_DOOR", "DOOR_TO_IV_ANTIHYPERTENSIVE_INITIATION",
    "DOOR_TO_SYS_BP_LT140", "IV_ANTIHYPERTENSIVE_TO_SYS_BP_LT140", "IV_ANTIHYPERTENSIVE",
    "ACHIEVING_SYSTOLIC_PRESSURE_LT140", "DOOR_TO_REVERSAL_INITIATION",
    "NO_ANTICOAGULATION_REVERSAL_REASON", "NO_ICH_TREATMENT_REASON", "DOOR_TO_EVACUATION" }

\* Enum.__call__: the member with this value
EnumLookup(cls, value) ==
    IF value \in cls THEN [err |-> "", val |-> value] ELSE [err |-> "ValueError", val |-> ""]

\* graphql_query.Argument(name=..., value=...)
Argument(name, value) == [name |-> name, value |-> value]

FilterLeaf(filter_type, args) == [kind |-> "FilterLeaf", filter_type |-> filter_type, args |-> args]
LogicalNode(operator, children) == [kind |-> "LogicalNode", operator |-> operator, children |-> children]

IntegerFilter(property, operator, value) ==
    FilterLeaf("integerCaseFilter",
               <<Argument("property", property), Argument("operator", operator), Argument("value", value)>>)

GB_AgeFilter(operator, value)   == IntegerFilter("AGE", operator, value)
GB_NIHSSFilter(operator, value) == IntegerFilter("ADMISSION_NIHSS", operator, value)

EnumFilter(Property, value, contains) ==
    FilterLeaf("enumCaseFilter",
               <<Argument(Property, <<Argument("values", value), Argument("contains", contains)>>)>>)

GB_SexFilter(property, contains)    == EnumFilter("sexType", property, contains)
GB_StrokeFilter(property, contains) == EnumFilter("strokeType", property, contains)

\* the date is wrapped in double quotes: f'"{value}"'
GB_DateFilter(property, operator, value) ==
    FilterLeaf("dateCaseFilter",
               <<Argument("property", property), Argument("operator", operator),
                 Argument("value", "\"" \o value \o "\"")>>)

GB_BooleanFilter(property, value) ==
    FilterLeaf("booleanCaseFilter", <<Argument("property", property), Argument("value", value)>>)

\* AND(*children), OR(*children) take any number of children; NOT(children)
\* takes exactly one positional argument, any other number is a TypeError
AND(children) == [err |-> "", val |-> LogicalNode("AND", children)]
OR(children)  == [err |-> "", val |-> LogicalNode("OR", children)]
NOT(children) ==
    IF Len(children) = 1 THEN [err |-> "", val |-> LogicalNode("NOT", children)]
    ELSE [err |-> "TypeError", val |-> None]

\* FilterLeaf.to_argument and LogicalNode.to_argument
RECURSIVE to_argument(_)
to_argument(f) ==
    IF f.kind = "FilterLeaf"
    THEN Argument("leaf", Argument(f.filter_type, f.args))
    ELSE Argument("node",
                  <<Argument("logicalOperator", f.operator),
                    Argument("children", [i \in 1..Len(f.children) |-> <<to_argument(f.children[i])>>])>>)

-----------------------------------------------------------------------------
(* MetricBuilder: graphql_builder.py.  lower and upper are None until      *)
(* with_bounds sets them.                                                  *)

\* format() of a member of the (str, Enum) class KPI inside an f-string: the
\* member's value up to Python 3.10, KPI.<Name> from Python 3.11 on.  No file
\* of the repository fixes the version, so a run takes either.
EnumFormats == {"value", "member"}
KpiName(kpi) == KPI[CHOOSE k \in 1..Len(KPI) : Str(KPI[k].value) = kpi].name
FormatKpi(kpi, enum_format) == IF enum_format = "value" THEN kpi ELSE "KPI." \o KpiName(kpi)

\* MetricBuilder(metric_id) with the default alias f"metric_{metric_id}";
\* metric_id is a member of KPI, held as its value
MetricBuilder(metric_id, enum_format) ==
    [metric_id |-> metric_id, alias |-> "metric_" \o FormatKpi(metric_id, enum_format),
     include_stats |-> FALSE, include_distribution |-> FALSE, bin_count |-> 24,
     include_bounds |-> FALSE, lower |-> None, upper |-> None, include_group |-> FALSE]

with_bounds(m, lower_, upper_) == [m EXCEPT !.include_bounds = TRUE, !.lower = lower_, !.upper = upper_]

with_distribution(m, bin_count, lower_, upper_) ==
    with_bounds([m EXCEPT !.include_distribution = TRUE, !.bin_count = bin_count], lower_, upper_)

with_stats(m) == [m EXCEPT !.include_stats = TRUE]

with_group(m) == [m EXCEPT !.include_group = TRUE]

\* graphql_query.Field(name=..., alias=..., arguments=..., fields=...)
Field(name, alias, arguments, fields) ==
    [name |-> name, alias |-> alias, arguments |-> arguments, fields |-> fields]

StatsFields == <<"percents", "normalizedPercents", "cohortSize", "normalizedCohortSize",
                 "median", "mean", "variance", "confidenceIntervalMean",
                 "confidenceIntervalMedian", "interquartileRange", "quartiles">>

\* Python's `x or d` on an int: d when x is 0
OrDefault(x, d) == IF x = 0 THEN d ELSE x

to_field(m) ==
    LET kpi_fields ==
            <<"caseCount">>
            \o (IF m.include_stats THEN StatsFields ELSE <<>>)
            \o (IF m.include_distribution
                THEN <<Field("distribution", "d1", <<Argument("binCount", m.bin_count)>>,
                             <<"edges", "caseCount", "percents", "normalizedPercents">>)>>
                ELSE <<>>)
        kpi == Field("kpi", "kpi1",
                     IF m.include_bounds
                     THEN <<Argument("kpiOptions",
                                     <<Argument("lowerBoundary", OrDefault(m.lower, 0)),
                                       Argument("upperBoundary", OrDefault(m.upper, 120))>>)>>
                     ELSE <<>>,
                     kpi_fields)
        kpiGroup_fields ==
            <<kpi>> \o (IF m.include_group THEN <<Field("groupedBy", "", <<>>, <<"groupItemName">>)>> ELSE <<>>)
    IN  Field("metric", m.alias, <<Argument("metricId", m.metric_id)>>,
              <<Field("kpiGroup", "", <<>>, kpiGroup_fields)>>)

\* build_query with the default start_date, end_date, provider_group_id and
\* generalStats = False.  groupBy is the value of a member of Group, or "" for
\* None.  The result is the Query that is rendered and the metric builders as
\* the call leaves them (with_group mutates every one when a groupBy is given).
build_query(metrics, caseFilters_, groupBy) ==
    LET filter_Values ==
            <<Argument("timePeriod",
                       << <<Argument("startDate", "\"1000-01-01\""),
                            Argument("endDate", "\"9999-12-31\"")>> >>),
              Argument("dataOrigin", Argument("providerGroupId", <<1>>))>>
            \o (IF caseFilters_ # None
                THEN <<Argument("caseFilter", to_argument(caseFilters_))>> ELSE <<>>)
        grouped == [i \in 1..Len(metrics) |->
                        IF groupBy # "" THEN with_group(metrics[i]) ELSE metrics[i]]
        getMetrics_Values ==
            <<Argument("filter", filter_Values)>>
            \o (IF groupBy # "" THEN <<Argument("groupBy", groupBy)>> ELSE <<>>)
    IN  [query |-> [name |-> "getMetrics", arguments |-> getMetrics_Values,
                    fields |-> [i \in 1..Len(grouped) |-> to_field(grouped[i])]],
         metrics |-> grouped]

-----------------------------------------------------------------------------
(* instructor_to_graphql.py                                                *)

\* one leaf of the match statement of LogicFilter_to_LogicalNode
LeafToGB(child) ==
    CASE child.type = "AgeFilter" ->
            Try(EnumLookup(GB_Operator, child.operator), LAMBDA op :
                Value(GB_AgeFilter(op.val, child.value)))
      [] child.type = "NIHSSFilter" ->
            Try(EnumLookup(GB_Operator, child.operator), LAMBDA op :
                Value(GB_NIHSSFilter(op.val, child.value)))
      [] child.type = "SexFilter" ->
            Try(EnumLookup(GB_SexProperty, child.value), LAMBDA v :
                Value(GB_SexFilter(v.val, TRUE)))
      [] child.type = "StrokeFilter" ->
            Try(EnumLookup(GB_StrokeProperty, child.value), LAMBDA v :
                Value(GB_StrokeFilter(v.val, TRUE)))
      [] child.type = "DateFilter" ->
            \* GB.DateProperty(child.type): the model's type tag, not a date property
            Try(EnumLookup(GB_DateProperty, child.type), LAMBDA dp :
            Try(EnumLookup(GB_Operator, child.operator), LAMBDA op :
                Value(GB_DateFilter(dp.val, op.val, child.value))))
      [] child.type = "BooleanFilter" ->
            Try(EnumLookup(GB_BooleanProperty, child.property), LAMBDA v :
                Value(GB_BooleanFilter(v.val, TRUE)))

\* one iteration of the loop of MetricsRequest_to_MetricBuilder
MetricToBuilder(metric, enum_format) ==
    IF metric.distribution # None
    THEN with_distribution(IF metric.stats
                           THEN with_stats(MetricBuilder(metric.kpi, enum_format))
                           ELSE MetricBuilder(metric.kpi, enum_format),
                           metric.distribution.bin_count, metric.distribution.lower,
                           metric.distribution.upper)
    ELSE IF metric.stats THEN with_stats(MetricBuilder(metric.kpi, enum_format))
    ELSE MetricBuilder(metric.kpi, enum_format)

\* MetricsRequest is the list MetricsCollection.metrics
MetricsRequest_to_MetricBuilder(MetricsRequest, enum_format) ==
    [i \in 1..Len(MetricsRequest) |-> MetricToBuilder(MetricsRequest[i], enum_format)]

RECURSIVE LogicFilter_to_LogicalNode(_), ConvertChildren(_, _, _)

\* the for loop over LogicalFilter.children: a nested LogicalFilter is converted
\* and the result is not appended; a leaf is converted and appended
ConvertChildren(children, i, new_children) ==
    IF i > Len(children) THEN Value(new_children)
    ELSE IF children[i].type = "LogicalFilter"
    THEN Try(LogicFilter_to_LogicalNode(children[i]), LAMBDA sub :
             ConvertChildren(children, i + 1, new_children))
    ELSE Try(LeafToGB(children[i]), LAMBDA leaf :
             ConvertChildren(children, i + 1, Append(new_children, leaf.val)))

LogicFilter_to_LogicalNode(f) ==
    IF f.children = <<>> THEN Value(None)
    ELSE Try(ConvertChildren(f.children, 1, <<>>), LAMBDA new_children :
             CASE f.operator = "AND" -> AND(new_children.val)
               [] f.operator = "OR"  -> OR(new_children.val)
               [] f.operator = "NOT" -> NOT(new_children.val))

-----------------------------------------------------------------------------
(* Inputs.  A filter text is built from lexemes; the runs of the model     *)
(* take their text from the sets below.                                    *)

\* largest number of nodes (Logical nodes and conditions) of a generated filter
MaxNodes == 4

T_AND == <<"A","N","D">>
T_OR == <<"O","R">>
T_NOT == <<"N","O","T">>
T_AGE == <<"A","G","E">>
T_NIHSS == <<"N","I","H","S","S">>
T_DISCHARGEDATE == <<"D","I","S","C","H","A","R","G","E","D","A","T","E">>
T_SEX == <<"S","E","X">>
T_THROMBECTOMY == <<"T","H","R","O","M","B","E","C","T","O","M","Y">>
T_FOO == <<"F","O","O">>
T_MALE == <<"M","A","L","E">>
T_F == <<"F">>
T_UNSPECIFIED == <<"U","N","S","P","E","C","I","F","I","E","D">>
T_TIA == <<"T","I","A">>
T_TRUE == <<"T","R","U","E">>
T_FALSE == <<"F","A","L","S","E">>
T_BAR == <<"B","A","R">>
T_LP    == <<"(">>
T_RP    == <<")">>
T_COMMA == <<",">>
T_5     == <<"5">>
T_50    == <<"5","0">>
T_DATE  == <<"2","0","2","3","-","0","9","-","0","1">>
T_true  == <<"t","r","u","e">>

\* the text of a sequence of lexemes
RECURSIVE Cat(_)
Cat(lexemes) == IF lexemes = <<>> THEN <<>> ELSE Head(lexemes) \o Cat(Tail(lexemes))

Operators == {T_AND, T_OR, T_NOT}

\* the conditions at the leaves of the generated filter shapes
ShapeConditions == { <<T_AGE, <<"=","=">>, T_5>>, <<T_THROMBECTOMY, <<"=","=">>, T_FALSE>> }

\* expressions of exactly n nodes and comma-separated lists of expressions of
\* m nodes in all, as lexeme sequences; a filter may have an empty list
RECURSIVE ExprLex(_), ListLex(_)
FilterLex(n) == { <<op, T_LP>> \o l \o <<T_RP>> : op \in Operators, l \in ListLex(n - 1) }
ExprLex(n) == (IF n = 1 THEN ShapeConditions ELSE {}) \cup FilterLex(n)
ListLex(m) ==
    IF m = 0 THEN {<<>>}
    ELSE UNION { { e \o (IF r = <<>> THEN <<>> ELSE <<T_COMMA>> \o r) :
                        e \in ExprLex(j), r \in ListLex(m - j) } : j \in 1..m }

ShapeFilters(n) == UNION { FilterLex(k) : k \in 1..n }

\* a single condition under AND, for every identifier, comparison symbol and value
Identifiers == {T_AGE, T_NIHSS, T_DISCHARGEDATE, T_SEX, T_THROMBECTOMY, T_FOO}
Values      == {T_5, T_50, T_MALE, T_F, T_UNSPECIFIED, T_TIA, T_TRUE, T_FALSE, T_BAR, T_AGE,
                T_DATE, T_true}
ConditionFilters ==
    { <<T_AND, T_LP, id, ComparisonSymbols[c], v, T_RP>> :
          id \in Identifiers, c \in 1..Len(ComparisonSymbols), v \in Values }

\* a filter cut after any number of its lexemes
Truncations(filters) == UNION { { SubSeq(f, 1, k) : k \in 0..(Len(f) - 1) } : f \in filters }

\* AND(AGE>=50, SEX==MALE)
ExampleAgeSex ==
    T_AND \o T_LP \o T_AGE \o <<">","=">> \o T_50 \o T_COMMA \o <<" ">>
          \o T_SEX \o <<"=","=">> \o T_MALE \o T_RP

\* AND(FOO==BAR)
ExampleFooBar == T_AND \o T_LP \o T_FOO \o <<"=","=">> \o T_BAR \o T_RP

\* AND(DISCHARGEDATE>2023-09-01)
ExampleDate == T_AND \o T_LP \o T_DISCHARGEDATE \o <<">">> \o T_DATE \o T_RP

\* AND(AGE==5) OR(SEX==MALE): a second filter after the first
ExampleSecondFilter ==
    T_AND \o T_LP \o T_AGE \o <<"=","=">> \o T_5 \o T_RP \o <<" ">>
          \o T_OR \o T_LP \o T_SEX \o <<"=","=">> \o T_MALE \o T_RP

\* AND(AGE==5)): a closing parenthesis too many
ExampleExtraParen == T_AND \o T_LP \o T_AGE \o <<"=","=">> \o T_5 \o T_RP \o T_RP

\* AND(THROMBECTOMY==)): the value is missing
ExampleNoValue == T_AND \o T_LP \o T_THROMBECTOMY \o <<"=","=">> \o T_RP \o T_RP

\* AND(THROMBECTOMY==AND): an operator keyword in the place of the value
ExampleKeywordValue ==
    T_AND \o T_LP \o T_THROMBECTOMY \o <<"=","=">> \o T_AND \o T_RP

ExampleTexts == {ExampleAgeSex, ExampleFooBar, ExampleDate, ExampleSecondFilter,
                 ExampleExtraParen, ExampleNoValue, ExampleKeywordValue}

FilterInputs ==
    { Cat(f) : f \in ShapeFilters(MaxNodes) \cup ConditionFilters
                     \cup Truncations(ShapeFilters(MaxNodes - 1)) }
    \cup ExampleTexts

\* texts handed to from_value
AliasTexts == {
    <<"a","t"," ","l","e","a","s","t">>,
    <<">","=">>,
    <<"=",">">>,
    <<"n","o"," ","l","e","s","s"," ","t","h","a","n">>,
    <<"G","E">>,
    <<"g","e">>,
    <<" ","A","t"," ","L","e","a","s","t"," ">>,
    <<"<","=">>,
    <<"<">>,
    <<">">>,
    <<"=","=">>,
    <<"!","=">>,
    <<"i","s">>,
    <<"&">>,
    <<"|">>,
    <<"!">>,
    <<"&","&">>,
    <<"A","N","D">>,
    <<"o","r">>,
    <<"M","A","L","E">>,
    <<"m">>,
    <<"u","n","s","p","e","c","i","f","i","e","d">>,
    <<"t","i","a">>,
    <<"T","h","r","o","m","b","e","c","t","o","m","y">>,
    <<"t","p","a">>,
    <<>> }

-----------------------------------------------------------------------------
(* The runs.  A "filter" run is build_filter_response followed by          *)
(* Build_query_from_instructor_models with no metric and no group; a       *)
(* "resolve" run is one call of from_value.                                *)

Init ==
    /\ \/ call = "filter" /\ input \in FilterInputs /\ family = ""
       \/ call = "resolve" /\ input \in AliasTexts /\ family \in DOMAIN Families
    /\ pc = "start"
    /\ tokens = <<>>
    /\ tree = None
    /\ error = ""
    /\ errpos = 0
    /\ caseFilters = None
    /\ query = None
    /\ resolved = ""
    /\ result = None
    /\ builders = <<>>
    /\ outputs = <<>>
    /\ sem = 0
    /\ tasks = <<>>

\* build_filter_response: `if filter_string:` is false for the empty text
\* (and for None), nothing is parsed and logicalFilter is None
NoFilter ==
    /\ call = "filter" /\ pc = "start" /\ input = <<>>
    /\ tree' = None
    /\ pc' = "parsed"
    /\ UNCHANGED <<sem, tasks, call, input, family, tokens, error, errpos, caseFilters, query,
                   resolved, result, builders, outputs>>

\* build_filter_response with a filter_string: parse_filter_string starts with
\* tokens = tokenize(input_str)
Tokenize ==
    /\ call = "filter" /\ pc = "start" /\ input # <<>>
    /\ tokens' = tokenize(input)
    /\ pc' = "tokenized"
    /\ UNCHANGED <<sem, tasks, call, input, family, tree, error, errpos, caseFilters, query, resolved,
                   result, builders, outputs>>

\* FilterParser(tokens).parse()
Parsed(r) ==
    /\ error' = r.err
    /\ errpos' = r.pos
    /\ tree' = r.val
    /\ pc' = IF r.err # "" THEN "parse_raised" ELSE "parsed"

Parse ==
    /\ call = "filter" /\ pc = "tokenized"
    /\ Parsed(parse(tokens))
    /\ UNCHANGED <<sem, tasks, call, input, family, tokens, caseFilters, query, resolved,
                   result, builders, outputs>>

\* caseFilters = LogicFilter_to_LogicalNode(logicalFilter) if logicalFilter else None
Converted(r) ==
    /\ error' = r.err
    /\ caseFilters' = r.val
    /\ pc' = IF r.err # "" THEN "convert_raised" ELSE "converted"

Convert ==
    /\ call = "filter" /\ pc = "parsed"
    /\ Converted(IF tree = None THEN Value(None) ELSE LogicFilter_to_LogicalNode(tree))
    /\ UNCHANGED <<sem, tasks, call, input, family, tokens, tree, errpos, query, resolved,
                   result, builders, outputs>>

\* GB.build_query(metrics, caseFilters, groupBy=groupBy)
BuildQuery ==
    /\ call = "filter" /\ pc = "converted"
    /\ query' = build_query(<<>>, caseFilters, "").query
    /\ pc' = "built"
    /\ UNCHANGED <<sem, tasks, call, input, family, tokens, tree, error, errpos, caseFilters, resolved,
                   result, builders, outputs>>

\* Families[family].from_value(input)
Resolved(r) ==
    /\ error' = r.err
    /\ resolved' = r.val
    /\ pc' = IF r.err # "" THEN "resolve_raised" ELSE "resolved"

Resolve ==
    /\ call = "resolve" /\ pc = "start"
    /\ Resolved(from_value(Families[family], input))
    /\ UNCHANGED <<sem, tasks, call, input, family, tokens, tree, errpos, caseFilters, query,
                   result, builders, outputs>>

Next == NoFilter \/ Tokenize \/ Parse \/ Convert \/ BuildQuery \/ Resolve

Spec == Init /\ [][Next]_vars

-----------------------------------------------------------------------------
(* Metric runs.  A "distribution" run constructs one Distribution, a       *)
(* "metrics" run is one call of build_metric_response, a "compile" run is  *)
(* a series of build_query calls on the same MetricBuilder objects.        *)

\* largest magnitude of a generated bin count or bound
MaxMagnitude == 2

\* largest number of metric words of a generated call
MaxMetrics == 2

\* largest number of build_query calls of a compile run
MaxCompiles == 3

W_DTN   == <<"D","T","N">>
W_nihss == <<"n","i","h","s","s">>
W_AGE   == <<"A","G","E">>
W_FOO   == <<"F","O","O">>

\* STROKE_TYPE, the metric id, and type of stroke, an alias of KPI.StrokeType
W_STROKE_TYPE    == <<"S","T","R","O","K","E","_","T","Y","P","E">>
W_type_of_stroke == <<"t","y","p","e"," ","o","f"," ","s","t","r","o","k","e">>

\* DTN:12:0:120, dtn:5:-1:1, nihss:10:0:42, AGE:10:0:100
D_DTN   == <<"D","T","N",":","1","2",":","0",":","1","2","0">>
D_dtn   == <<"d","t","n",":","5",":","-","1",":","1">>
D_nihss == <<"n","i","h","s","s",":","1","0",":","0",":","4","2">>
D_AGE   == <<"A","G","E",":","1","0",":","0",":","1","0","0">>

\* AGE:10:-10:0: the bounds end at zero
D_below == <<"A","G","E",":","1","0",":","-","1","0",":","0">>

\* refused specs: AGE:10:50:10, AGE:0:0:10, DTN:12:0, AGE:x:0:10
D_inverted == <<"A","G","E",":","1","0",":","5","0",":","1","0">>
D_nobins   == <<"A","G","E",":","0",":","0",":","1","0">>
D_short    == <<"D","T","N",":","1","2",":","0">>
D_word     == <<"A","G","E",":","x",":","0",":","1","0">>

\* the sequences over S of length at most n
Seqs(S, n) == UNION { [1..k -> S] : k \in 0..n }

MetricWords == {W_DTN, W_nihss, W_AGE, W_FOO}

DistributionLists ==
    { <<>>, <<D_DTN>>, <<D_dtn>>, <<D_nihss>>, <<D_AGE>>, <<D_inverted>>, <<D_nobins>>,
      <<D_short>>, <<D_word>>, <<D_DTN, D_dtn>>, <<D_dtn, D_DTN>>, <<D_DTN, D_AGE>>,
      <<D_AGE, D_short>> }

\* no group, first seen, zzz
GroupTexts == { <<>>, <<"f","i","r","s","t"," ","s","e","e","n">>, <<"z","z","z">> }

\* Distribution(bin_count=10, lower=50, upper=10), (0, 0, 10), (10, 0, 10)
DistributionExamples ==
    { [bin_count |-> 10, lower |-> 50, upper |-> 10],
      [bin_count |-> 0, lower |-> 0, upper |-> 10],
      [bin_count |-> 10, lower |-> 0, upper |-> 10] }

DistributionArgs ==
    [bin_count : -MaxMagnitude..MaxMagnitude, lower : -MaxMagnitude..MaxMagnitude,
     upper : -MaxMagnitude..MaxMagnitude]
    \cup DistributionExamples

\* the stroke type asked for by its metric id and by an alias
StrokeTypeCalls ==
    { [metrics |-> <<w>>, distribution |-> <<>>, stats |-> FALSE, group |-> <<>>] :
          w \in {W_STROKE_TYPE, W_type_of_stroke} }

MetricsArgs ==
    [metrics : Seqs(MetricWords, MaxMetrics), distribution : DistributionLists,
     stats : BOOLEAN, group : GroupTexts]
    \cup StrokeTypeCalls

\* the case filter of AND(AGE==5)
AgeCaseFilter ==
    LogicFilter_to_LogicalNode(
        parse_filter_string(T_AND \o T_LP \o T_AGE \o <<"=","=">> \o T_5 \o T_RP).val).val

\* the metric lists and case filters handed to build_query
CompileArgs ==
    { [metrics |-> parse_metrics(w, d, s).val, caseFilters |-> f] :
          w \in Seqs({W_DTN, W_AGE}, MaxMetrics), d \in {<<>>, <<D_DTN>>, <<D_below>>},
          s \in BOOLEAN, f \in {None, AgeCaseFilter} }
    \cup { [metrics |-> parse_metrics(<<W_type_of_stroke>>, <<>>, FALSE).val,
             caseFilters |-> None] }

\* the groupBy of a build_query call: None ("") or a member of Group
CompileGroups == {"", "INR_MODE"}

InitMetrics ==
    /\ \/ call = "distribution" /\ input \in DistributionArgs /\ builders = <<>>
       \/ call = "metrics" /\ input \in MetricsArgs /\ builders = <<>>
       \/ /\ call = "compile" /\ input \in CompileArgs
          /\ \E enum_format \in EnumFormats :
                 builders = MetricsRequest_to_MetricBuilder(input.metrics, enum_format)
    /\ pc = "start"
    /\ family = ""
    /\ tokens = <<>>
    /\ tree = None
    /\ error = ""
    /\ errpos = 0
    /\ caseFilters = None
    /\ query = None
    /\ resolved = ""
    /\ result = None
    /\ outputs = <<>>
    /\ sem = 0
    /\ tasks = <<>>

\* the call of the run returns or raises
Returned(r, returned, raised) ==
    /\ result' = r.val
    /\ error' = r.err
    /\ pc' = IF r.err # "" THEN raised ELSE returned

\* Distribution(bin_count=..., lower=..., upper=...)
ConstructDistribution ==
    /\ call = "distribution" /\ pc = "start"
    /\ Returned(Distribution(input.bin_count, input.lower, input.upper),
                "constructed", "construct_raised")
    /\ UNCHANGED <<sem, tasks, call, input, family, tokens, tree, errpos, caseFilters, query, resolved,
                   builders, outputs>>

\* build_metric_response(metrics, distribution, stats, group)
BuildMetricResponse ==
    /\ call = "metrics" /\ pc = "start"
    /\ Returned(build_metric_response(input.metrics, input.distribution, input.stats, input.group),
                "metrics_built", "metrics_raised")
    /\ UNCHANGED <<sem, tasks, call, input, family, tokens, tree, errpos, caseFilters, query, resolved,
                   builders, outputs>>

\* build_query leaves the builders as it mutated them and returns the query
Compiled(r, groupBy) ==
    /\ builders' = r.metrics
    /\ query' = r.query
    /\ outputs' = Append(outputs, [groupBy |-> groupBy, query |-> r.query])
    /\ pc' = "built"

\* build_query(metrics, caseFilters, groupBy=groupBy) on the run's builders
Compile ==
    /\ call = "compile" /\ Len(outputs) < MaxCompiles
    /\ \E groupBy \in CompileGroups :
           Compiled(build_query(builders, input.caseFilters, groupBy), groupBy)
    /\ UNCHANGED <<sem, tasks, call, input, family, tokens, tree, error, errpos, caseFilters, resolved,
                   result>>

NextMetrics == ConstructDistribution \/ BuildMetricResponse \/ Compile

SpecMetrics == InitMetrics /\ [][NextMetrics]_vars

-----------------------------------------------------------------------------
(* GraphQLQueryGenerator._clean_query: domain/graphql/request.py.  A        *)
(* "clean" run is one call of it.                                           *)

\* the number of whitespace characters of s from position i on, up to the
\* first other character
RECURSIVE SpaceRun(_, _)
SpaceRun(s, i) == IF i > Len(s) \/ s[i] \notin Space THEN 0 ELSE 1 + SpaceRun(s, i + 1)

\* re.sub(r"\s+", " ", query) from position i on
RECURSIVE CollapseSpace(_, _)
CollapseSpace(query_, i) ==
    IF i > Len(query_) THEN <<>>
    ELSE IF query_[i] \in Space
    THEN <<" ">> \o CollapseSpace(query_, i + SpaceRun(query_, i))
    ELSE <<query_[i]>> \o CollapseSpace(query_, i + 1)

\* re.sub(r"\s*{\s*", " { ", query) and the same for }, from position i on:
\* a match starts at i when the whitespace from i on ends at a brace, and it
\* takes the whitespace after the brace with it
RECURSIVE SpaceBrace(_, _, _)
SpaceBrace(query_, i, brace) ==
    IF i > Len(query_) THEN <<>>
    ELSE IF /\ i + SpaceRun(query_, i) <= Len(query_)
            /\ query_[i + SpaceRun(query_, i)] = brace
    THEN <<" ", brace, " ">>
         \o SpaceBrace(query_,
                       i + SpaceRun(query_, i) + 1
                         + SpaceRun(query_, i + SpaceRun(query_, i) + 1),
                       brace)
    ELSE <<query_[i]>> \o SpaceBrace(query_, i + 1, brace)

clean_query(query_) ==
    strip(SpaceBrace(SpaceBrace(CollapseSpace(query_, 1), 1, "{"), 1, "}"))

\* longest generated fragment of query text
MaxText == 4

\* the characters of the fragments: a name character, a blank, a line end and
\* the braces
TextChars == {"a", " ", "\n", "{", "}"}

\* the end of a generated query: the closing braces of kpi1, kpiGroup and metric
ClosingLines == <<"a", "\n", " ", "}", "\n", " ", "}", "\n", "}", "\n">>

QueryTexts == Seqs(TextChars, MaxText) \cup {ClosingLines}

InitClean ==
    /\ call = "clean" /\ input \in QueryTexts
    /\ pc = "start"
    /\ family = ""
    /\ tokens = <<>>
    /\ tree = None
    /\ error = ""
    /\ errpos = 0
    /\ caseFilters = None
    /\ query = None
    /\ resolved = ""
    /\ result = None
    /\ builders = <<>>
    /\ outputs = <<>>
    /\ sem = 0
    /\ tasks = <<>>

\* GraphQLQueryGenerator._clean_query(query)
CleanQuery ==
    /\ call = "clean" /\ pc = "start"
    /\ result' = clean_query(input)
    /\ pc' = "cleaned"
    /\ UNCHANGED <<sem, tasks, call, input, family, tokens, tree, error, errpos, caseFilters, query,
                   resolved, builders, outputs>>

NextClean == CleanQuery

SpecClean == InitClean /\ [][NextClean]_vars

-----------------------------------------------------------------------------
(* Translate runs.  A "translate" run is one call of                       *)
(* EntityToInstructorTranslator.translate.                                  *)

\* largest number of entities of a generated list
MaxEntities == 3

V_40       == <<"4","0">>
V_60       == <<"6","0">>
V_ischemic == <<"i","s","c","h","e","m","i","c">>
V_x        == <<"x">>

\* {"entity": entity, "value": value, "role": role}
Ranged(entity, value, role) == [entity |-> entity, value |-> value, role |-> role]

\* {"entity": entity, "value": value}
Entity(entity, value) == [entity |-> entity, value |-> value]

EntityPool ==
    { Ranged("age", V_40, "lower"), Ranged("age", V_60, "upper"),
      Ranged("nihss", T_5, "lower"),
      Entity("sex", T_MALE), Entity("sex", T_F), Entity("sex", T_BAR),
      Entity("stroke_type", T_TIA), Entity("stroke_type", V_ischemic),
      Entity("stroke_type", T_BAR),
      Entity("kpi", W_DTN) }

\* first seen
V_first_seen == <<"f","i","r","s","t"," ","s","e","e","n">>

\* kpi DTN, kpi BAR, boolean_type BAR, boolean_type THROMBECTOMY, group_by BAR
UnresolvedExample ==
    <<Entity("kpi", W_DTN), Entity("kpi", T_BAR), Entity("boolean_type", T_BAR),
      Entity("boolean_type", T_THROMBECTOMY), Entity("group_by", T_BAR)>>

\* lists with an entity that is passed over, whose value is no integer or no
\* date, or whose value is no member of its enumeration
ExampleEntityLists ==
    { <<Entity("age", V_40)>>, <<[entity |-> "sex"]>>,
      <<Ranged("age", V_x, "lower")>>, <<Ranged("age", V_40, "middle")>>,
      <<Ranged("age", V_40, "lower"), Ranged("age", V_60, "lower")>>,
      <<Ranged("nihss", V_x, "upper"), Entity("sex", T_MALE)>>,
      <<Ranged("date", T_DATE, "lower"), Ranged("date", T_DATE, "upper")>>,
      <<Ranged("date", T_BAR, "lower"), Entity("sex", T_MALE)>>,
      <<Ranged("date", T_DATE, "middle"), Ranged("date", T_BAR, "middle")>>,
      UnresolvedExample,
      <<Entity("kpi", T_BAR)>>,
      <<Entity("kpi", T_AGE), Entity("kpi", T_THROMBECTOMY), Entity("group_by", V_first_seen)>>,
      <<Entity("group_by", V_first_seen), Entity("kpi", W_DTN), Entity("group_by", T_BAR)>>,
      <<Entity("sex", T_BAR), Entity("stroke_type", T_BAR), Entity("boolean_type", T_BAR),
        Entity("kpi", T_BAR), Entity("group_by", T_BAR)>> }

EntityLists == Seqs(EntityPool, MaxEntities) \cup ExampleEntityLists

\* show DTN, Exclude TIA, nothing else
Messages ==
    { <<"s","h","o","w"," ","D","T","N">>, <<"E","x","c","l","u","d","e"," ","T","I","A">>,
      <<"n","o","t","h","i","n","g"," ","e","l","s","e">> }

TranslateArgs == [entities : EntityLists, user_message : Messages]

InitTranslate ==
    /\ call = "translate" /\ input \in TranslateArgs
    /\ pc = "start"
    /\ family = ""
    /\ tokens = <<>>
    /\ tree = None
    /\ error = ""
    /\ errpos = 0
    /\ caseFilters = None
    /\ query = None
    /\ resolved = ""
    /\ result = None
    /\ builders = <<>>
    /\ outputs = <<>>
    /\ sem = 0
    /\ tasks = <<>>

\* translate(entities, user_message)
Translate ==
    /\ call = "translate" /\ pc = "start"
    /\ Returned(translate(input.entities, input.user_message), "translated", "translate_raised")
    /\ UNCHANGED <<sem, tasks, call, input, family, tokens, tree, errpos, caseFilters, query, resolved,
                   builders, outputs>>

NextTranslate == Translate

SpecTranslate == InitTranslate /\ [][NextTranslate]_vars

-----------------------------------------------------------------------------
(* Plan runs: executors/plan_executor.py.  A "plan" run is one call of     *)
(* execute_plan_async, or of execute_plan when input.wrapper, for a chart   *)
(* that asks for input.requests GraphQL requests, under the asyncio of      *)
(* input.python.  A run_one task is                                         *)
(*   "created"    before it runs for the first time,                        *)
(*   "waiting"    in sem.acquire() while its future is pending, "woken"     *)
(*                when the future has its result and the task has not yet   *)
(*                resumed, "wait_cancelled" when the future is cancelled,   *)
(*   "querying"   while it holds the semaphore and awaits the thread of     *)
(*                client.query,                                             *)
(*   "answered"   when client.query has returned a response the task can    *)
(*                read and the task has not yet resumed, "malformed" when   *)
(*                it has returned a truthy response without .data, such as  *)
(*                the dict of GraphQLProxyClient.query, "raising" when it   *)
(*                has raised,                                               *)
(*   "done"       or "failed" when it has left `async with sem` and ended,  *)
(*   "abandoned"  when it was cancelled while its thread still runs         *)
(*                client.query, "cancelled" otherwise.                      *)
(* A LINE chart asks for at least one request; a run of no request is one  *)
(* of a plan without a LINE chart.  pc is "gathering" while                 *)
(* execute_plan_async awaits gather, "raised" once it has raised,           *)
(* "returned" once it has returned, and "cancelling" once asyncio.run has   *)
(* cancelled the tasks that were left.                                      *)

\* most requests of a generated chart
MaxRequests == 3

\* largest generated max_concurrency
MaxConcurrency == 2

\* asyncio.Semaphore is the interpreter's, and it differs between the Python
\* lines: in "3.9" release() adds a slot and the waiter it wakes takes the slot
\* when it resumes; in "3.11" (also 3.10 from the same fix on) release() and
\* every other wake-up hand the slot to the waiter, which resumes without
\* taking one and then wakes one more waiter if a slot is free; in "3.12" the
\* resumed waiter wakes as many waiters as slots are free.
Pythons == {"3.9", "3.11", "3.12"}

\* the waiters of the semaphore whose future is pending
Pending(ts) == {t \in DOMAIN ts : ts[t] = "waiting"}

\* a semaphore that never blocks
locked_Never(python, value, ts) == FALSE

\* Semaphore.locked(): no slot is left, or (from 3.11 on) a waiter that is
\* not cancelled is still in the queue, woken or not
locked(python, value, ts) ==
    \/ value = 0
    \/ python # "3.9" /\ \E t \in DOMAIN ts : ts[t] \in {"waiting", "woken"}

\* Semaphore._wake_up_next() on s = [value, tasks]: the first waiter whose
\* future is pending gets its result; tasks wait in the order of their numbers
wake_up_next(python, s) ==
    IF Pending(s.tasks) = {} THEN s
    ELSE LET t == CHOOSE w \in Pending(s.tasks) : \A u \in Pending(s.tasks) : w <= u
         IN  [value |-> IF python = "3.9" THEN s.value ELSE s.value - 1,
              tasks |-> [s.tasks EXCEPT ![t] = "woken"]]

\* the wake-ups a waiter of a 3.11 or 3.12 semaphore makes when it leaves
\* acquire(): one if a slot is free, or one for every free slot
RECURSIVE wake_free(_, _)
wake_free(python, s) ==
    IF s.value > 0 /\ Pending(s.tasks) # {}
    THEN IF python = "3.12" THEN wake_free(python, wake_up_next(python, s))
                            ELSE wake_up_next(python, s)
    ELSE s

\* Semaphore.acquire() of task t up to its return or its first await: the
\* task takes a slot and goes on to the query, or queues up
acquire(python, s, t) ==
    IF locked(python, s.value, s.tasks)
    THEN [s EXCEPT !.tasks[t] = "waiting"]
    ELSE [value |-> s.value - 1, tasks |-> [s.tasks EXCEPT ![t] = "querying"]]

\* the rest of Semaphore.acquire() when the woken task t resumes: on 3.9 it
\* takes a slot if one is left and waits again if not
acquire_resumed(python, s, t) ==
    IF python = "3.9"
    THEN IF s.value > 0
         THEN [value |-> s.value - 1, tasks |-> [s.tasks EXCEPT ![t] = "querying"]]
         ELSE [s EXCEPT !.tasks[t] = "waiting"]
    ELSE wake_free(python, [s EXCEPT !.tasks[t] = "querying"])

\* the rest of Semaphore.acquire() when CancelledError is thrown into the
\* waiting task t: a waiter that was woken gives the slot it was handed back
\* (3.11, 3.12) or passes the wake-up on (3.9)
acquire_cancelled(python, s, t) ==
    LET gone == [s EXCEPT !.tasks[t] = "cancelled"] IN
    IF s.tasks[t] # "woken" THEN gone
    ELSE IF python = "3.9" THEN (IF s.value > 0 THEN wake_up_next(python, gone) ELSE gone)
    ELSE IF python = "3.11" THEN wake_up_next(python, [gone EXCEPT !.value = @ + 1])
    ELSE wake_free(python, [gone EXCEPT !.value = @ + 1])

\* Semaphore.release()
release(python, s) == wake_up_next(python, [s EXCEPT !.value = @ + 1])

\* execute_plan calls execute_plan_async with max_concurrency=1
PlanArgs ==
    { a \in [requests : 0..MaxRequests, max_concurrency : 1..MaxConcurrency,
             wrapper : BOOLEAN, python : Pythons] :
          a.wrapper => a.max_concurrency = 1 }

InitPlan ==
    /\ call = "plan" /\ input \in PlanArgs
    /\ pc = "start"
    /\ family = ""
    /\ tokens = <<>>
    /\ tree = None
    /\ error = ""
    /\ errpos = 0
    /\ caseFilters = None
    /\ query = None
    /\ resolved = ""
    /\ result = None
    /\ builders = <<>>
    /\ outputs = <<>>
    /\ sem = 0
    /\ tasks = <<>>

\* the semaphore and the tasks of the run become what a semaphore method left
Semaphore(s) == sem' = s.value /\ tasks' = s.tasks

\* sem = asyncio.Semaphore(max_concurrency); one task per request is created
\* and gather awaits them
CreateTasks ==
    /\ call = "plan" /\ pc = "start"
    /\ sem' = input.max_concurrency
    /\ tasks' = [t \in 1..input.requests |-> "created"]
    /\ pc' = "gathering"
    /\ UNCHANGED <<call, input, family, tokens, tree, error, errpos, caseFilters, query,
                   resolved, result, builders, outputs>>

\* no task is left that has not run yet: the loop runs the first step of
\* every task, in the order of their creation, before it resumes any task
AllStarted == \A t \in DOMAIN tasks : tasks[t] # "created"

\* a task runs for the first time and finds the semaphore locked
WaitForSemaphore(t) ==
    /\ call = "plan" /\ pc = "gathering"
    /\ tasks[t] = "created" /\ \A u \in 1..(t - 1) : tasks[u] # "created"
    /\ locked(input.python, sem, tasks)
    /\ Semaphore(acquire(input.python, [value |-> sem, tasks |-> tasks], t))
    /\ UNCHANGED <<call, pc, input, family, tokens, tree, error, errpos, caseFilters, query,
                   resolved, result, builders, outputs>>

\* a task enters `async with sem` and hands client.query to a thread, when
\* it runs for the first time or when it resumes after its wait
EnterQuery(t) ==
    /\ call = "plan"
    /\ \/ /\ pc = "gathering"
          /\ tasks[t] = "created" /\ \A u \in 1..(t - 1) : tasks[u] # "created"
          /\ ~locked(input.python, sem, tasks)
          /\ Semaphore(acquire(input.python, [value |-> sem, tasks |-> tasks], t))
       \/ /\ pc \in {"gathering", "raised"} /\ AllStarted
          /\ tasks[t] = "woken"
          /\ Semaphore(acquire_resumed(input.python, [value |-> sem, tasks |-> tasks], t))
    /\ UNCHANGED <<call, pc, input, family, tokens, tree, error, errpos, caseFilters, query,
                   resolved, result, builders, outputs>>

\* the thread of a task ends: client.query returns a response the task can
\* read (None, or one with .data), returns one without .data, or raises.
\* The thread of a cancelled task ends unseen.
QueryEnds(t) ==
    /\ call = "plan"
    /\ \/ tasks[t] = "querying" /\ \E end \in {"answered", "malformed", "raising"} :
                                       tasks' = [tasks EXCEPT ![t] = end]
       \/ tasks[t] = "abandoned" /\ tasks' = [tasks EXCEPT ![t] = "cancelled"]
    /\ UNCHANGED <<sem, call, pc, input, family, tokens, tree, error, errpos, caseFilters,
                   query, resolved, result, builders, outputs>>

\* the task resumes after the await, leaves `async with sem` and ends: it
\* returns its series, or raises what client.query raised or the
\* AttributeError of reading .data
LeaveQuery(t) ==
    /\ call = "plan" /\ pc \in {"gathering", "raised"} /\ AllStarted
    /\ tasks[t] \in {"answered", "malformed", "raising"}
    /\ Semaphore(release(input.python,
                         [value |-> sem,
                          tasks |-> [tasks EXCEPT ![t] = IF tasks[t] = "answered" THEN "done"
                                                                                  ELSE "failed"]]))
    /\ UNCHANGED <<call, pc, input, family, tokens, tree, error, errpos, caseFilters, query,
                   resolved, result, builders, outputs>>

\* gather raises what a failed task raised and execute_plan_async raises it
\* on; the other tasks go on
GatherRaises ==
    /\ call = "plan" /\ pc = "gathering"
    /\ \E t \in DOMAIN tasks : tasks[t] = "failed"
    /\ pc' = "raised"
    /\ error' = "Exception"
    /\ UNCHANGED <<sem, tasks, call, input, family, tokens, tree, errpos, caseFilters, query,
                   resolved, result, builders, outputs>>

\* gather returns the results of all tasks and execute_plan_async builds the
\* chart: response.charts is None, the default of VisualizationResponse, so
\* response.charts.append raises AttributeError and execute_plan_async
\* raises it on
GatherReturns ==
    /\ call = "plan" /\ pc = "gathering"
    /\ tasks # <<>>
    /\ \A t \in DOMAIN tasks : tasks[t] = "done"
    /\ pc' = "raised"
    /\ error' = "AttributeError"
    /\ UNCHANGED <<sem, tasks, call, input, family, tokens, tree, errpos, caseFilters,
                   query, resolved, result, builders, outputs>>

\* a plan without a LINE chart asks for no request: the loop over the charts
\* builds no chart and execute_plan_async returns the response, whose charts
\* are None
ReturnResponse ==
    /\ call = "plan" /\ pc = "gathering"
    /\ tasks = <<>>
    /\ pc' = "returned"
    /\ UNCHANGED <<sem, tasks, call, input, family, tokens, tree, error, errpos, caseFilters,
                   query, resolved, result, builders, outputs>>

\* under execute_plan, asyncio.run cancels every task that is left once the
\* main coroutine has raised: the future of a task that waits for the
\* semaphore is cancelled at once, and every task gets its CancelledError
\* when the loop runs it next
CancelTasks ==
    /\ call = "plan" /\ pc = "raised" /\ input.wrapper
    /\ pc' = "cancelling"
    /\ tasks' = [t \in DOMAIN tasks |-> IF tasks[t] = "waiting" THEN "wait_cancelled"
                                                                 ELSE tasks[t]]
    /\ UNCHANGED <<sem, call, input, family, tokens, tree, error, errpos, caseFilters, query,
                   resolved, result, builders, outputs>>

\* the state of a task that held the semaphore after its CancelledError:
\* the call of client.query goes on in its thread if the thread had begun it
Cancelled(state, begun) ==
    IF state = "querying" /\ begun THEN "abandoned" ELSE "cancelled"

\* a cancelled task runs: CancelledError is raised at its await, in
\* sem.acquire() or inside `async with sem`, which it leaves
TaskCancelled(t) ==
    /\ call = "plan" /\ pc = "cancelling"
    /\ \/ /\ tasks[t] \in {"wait_cancelled", "woken"}
          /\ Semaphore(acquire_cancelled(input.python, [value |-> sem, tasks |-> tasks], t))
       \/ /\ tasks[t] \in {"querying", "answered", "malformed", "raising"}
          /\ \E begun \in BOOLEAN :
                 Semaphore(release(input.python,
                                   [value |-> sem,
                                    tasks |-> [tasks EXCEPT ![t] = Cancelled(tasks[t], begun)]]))
    /\ UNCHANGED <<call, pc, input, family, tokens, tree, error, errpos, caseFilters, query,
                   resolved, result, builders, outputs>>

NextPlan ==
    \/ CreateTasks
    \/ \E t \in DOMAIN tasks : WaitForSemaphore(t)
    \/ \E t \in DOMAIN tasks : EnterQuery(t)
    \/ \E t \in DOMAIN tasks : QueryEnds(t)
    \/ \E t \in DOMAIN tasks : LeaveQuery(t)
    \/ GatherRaises
    \/ GatherReturns
    \/ ReturnResponse
    \/ CancelTasks
    \/ \E t \in DOMAIN tasks : TaskCancelled(t)

SpecPlan == InitPlan /\ [][NextPlan]_vars

-----------------------------------------------------------------------------
(* Measures of trees, token streams and compiled filters used by the       *)
(* properties below.                                                       *)

\* the nodes of a filter tree in source order (a node before its children)
RECURSIVE Preorder(_), PreorderAll(_)
Preorder(n) ==
    IF n.type = "LogicalFilter" THEN <<n>> \o PreorderAll(n.children) ELSE <<n>>
PreorderAll(children) ==
    IF children = <<>> THEN <<>> ELSE Preorder(Head(children)) \o PreorderAll(Tail(children))

LogicalNodes(n) == SelectSeq(Preorder(n), LAMBDA x : x.type = "LogicalFilter")
Leaves(n)       == SelectSeq(Preorder(n), LAMBDA x : x.type # "LogicalFilter")

\* the number of Arguments named name in the Argument a compiled filter renders to
RECURSIVE CountSeq(_, _), CountArgument(_, _)
CountArgument(a, name) ==
    (IF a.name = name THEN 1 ELSE 0)
    + (IF a.name = "node" THEN CountSeq(a.value[2].value, name) ELSE 0)
CountSeq(items, name) ==
    IF items = <<>> THEN 0
    ELSE CountArgument(Head(items)[1], name) + CountSeq(Tail(items), name)

\* parse_filter_string has returned or raised
ParseOver == call = "filter" /\ input # <<>> /\ pc \notin {"start", "tokenized"}

\* the caseFilter Argument of the built query
HasCaseFilter == Len(query.arguments[1].value) = 3
CaseFilter    == query.arguments[1].value[3].value

Kind(i) == IF i >= 1 /\ i <= Len(tokens) THEN tokens[i][1] ELSE "EOF"
Text(i) == IF i >= 1 /\ i <= Len(tokens) THEN tokens[i][2] ELSE <<>>

\* the number of tokens the parser has taken from the stream when it returns
\* or raises
Taken == errpos

\* the positions of the token stream where a condition starts, among the
\* tokens the parser has taken
ConditionStarts ==
    {i \in 1..Len(tokens) : i <= Taken /\ Kind(i) = "IDENT" /\ Kind(i + 1) = "COMPARISON"}

\* the i-th smallest element of a set of numbers
RECURSIVE Nth(_, _)
Nth(S, i) ==
    LET m == CHOOSE x \in S : \A y \in S : x <= y
    IN  IF i = 1 THEN m ELSE Nth(S \ {m}, i - 1)

\* position i holds OPERATOR ( ) : an operator applied to an empty list
EmptyListAt(i) == Kind(i) = "OPERATOR" /\ Kind(i + 1) = "LPAREN" /\ Kind(i + 2) = "RPAREN"

\* the token streams of the filters the truncated inputs are cut from, as far
\* as the parser accepts them
AcceptedStreams ==
    {s \in {tokenize(Cat(f)) : f \in ShapeFilters(MaxNodes - 1)} : parse(s).err = ""}

\* the token stream is a valid filter cut short
IsTruncation ==
    \E s \in AcceptedStreams : Len(tokens) < Len(s) /\ tokens = SubSeq(s, 1, Len(tokens))

\* the token stream is OPERATOR ( IDENT COMPARISON value )
SingleCondition ==
    /\ Len(tokens) = 6
    /\ Kind(1) = "OPERATOR" /\ Kind(2) = "LPAREN" /\ Kind(3) = "IDENT"
    /\ Kind(4) = "COMPARISON" /\ Kind(6) = "RPAREN"

KeyedByIdentifier(ident) == Str(upper(ident)) \in {"AGE", "NIHSS", "DISCHARGEDATE"}

-----------------------------------------------------------------------------
(* Properties.                                                             *)

\* C1: every tree parse_filter_string returns is compiled without an
\* exception: LogicFilter_to_LogicalNode never raises on it.
C1_CompileNeverRaises == pc # "convert_raised"

\* C2: the compiled case filter holds one `node` per Logical node of the
\* parsed tree and one `leaf` per leaf of it, nested nodes included.
C2_OneObjectPerNode ==
    (ParseOver /\ pc = "built") =>
        /\ HasCaseFilter
        /\ CountArgument(CaseFilter, "node") = Len(LogicalNodes(tree))
        /\ CountArgument(CaseFilter, "leaf") = Len(Leaves(tree))

\* C3: AND(AGE>=50, SEX==MALE) parses to AND[Age(GE, 50), Sex(MALE)].
C3_ExampleAgeSex ==
    (ParseOver /\ input = ExampleAgeSex) =>
        /\ pc # "parse_raised"
        /\ tree = LogicalFilter("AND", <<IM_AgeFilter("GE", 50), IM_SexFilter("MALE")>>)

\* "at least", ">=", "=>", "no less than"
GreaterOrEqualTexts == {
    <<"a","t"," ","l","e","a","s","t">>,
    <<">","=">>,
    <<"=",">">>,
    <<"n","o"," ","l","e","s","s"," ","t","h","a","n">> }

\* C4: each of "at least", ">=", "=>" and "no less than" resolves to GE in
\* the Comparison family.
C4_GreaterOrEqualAliases ==
    (call = "resolve" /\ pc # "start" /\ family = "ComparisonProperty"
        /\ input \in GreaterOrEqualTexts) =>
        (pc = "resolved" /\ resolved = "GE")

\* the root's children are all leaves, so that the i-th compiled child is the
\* compilation of the i-th child
FlatTree == \A i \in 1..Len(tree.children) : tree.children[i].type # "LogicalFilter"

\* the Argument the i-th child of the root is rendered from
CompiledChild(i) == CaseFilter.value[2].value[i][1]

\* C5: a Boolean leaf is emitted as a booleanCaseFilter carrying the leaf's
\* own value.
C5_BooleanValueEmitted ==
    (ParseOver /\ pc = "built" /\ FlatTree) =>
        \A i \in 1..Len(tree.children) :
            tree.children[i].type = "BooleanFilter" =>
                /\ CompiledChild(i).name = "leaf"
                /\ CompiledChild(i).value.name = "booleanCaseFilter"
                /\ CompiledChild(i).value.value[1].value = tree.children[i].property
                /\ CompiledChild(i).value.value[2].value = tree.children[i].value

\* C6: every NOT node of a tree the parser returns has exactly one child.
C6_NotHasOneChild ==
    (ParseOver /\ pc # "parse_raised") =>
        \A k \in 1..Len(LogicalNodes(tree)) :
            LogicalNodes(tree)[k].operator = "NOT" => Len(LogicalNodes(tree)[k].children) = 1

\* C7: no Logical node of a returned tree has zero children; a token stream
\* where an operator is applied to an empty list is rejected, and the parser
\* that stops at the `)` of such a list stops with a SyntaxError.
C7_EmptyListRejected ==
    ParseOver =>
        /\ pc # "parse_raised" =>
              \A k \in 1..Len(LogicalNodes(tree)) : LogicalNodes(tree)[k].children # <<>>
        /\ (\E i \in 1..Len(tokens) : EmptyListAt(i)) => pc = "parse_raised"
        /\ (pc = "parse_raised" /\ errpos >= 2 /\ EmptyListAt(errpos - 1)) => error = "SyntaxError"

\* a nested empty list, as in OR(AND()), has been rejected
C7_Witness ==
    /\ pc = "parse_raised" /\ error = "SyntaxError"
    /\ errpos >= 4 /\ EmptyListAt(errpos - 1)

\* C8: a valid filter cut short at any token makes parsing fail with a
\* SyntaxError.
C8_TruncationIsSyntaxError ==
    (ParseOver /\ IsTruncation) => (pc = "parse_raised" /\ error = "SyntaxError")

\* C9: a condition not keyed by its identifier whose value is a sex alias
\* yields that Sex leaf, and one whose value is a stroke alias (and no sex
\* alias) yields that Stroke leaf, whatever the identifier and the comparison.
C9_EnumLeafIgnoresOperator ==
    (ParseOver /\ SingleCondition /\ ~KeyedByIdentifier(Text(3))) =>
        /\ from_value(SexProperty, Text(5)).err = "" =>
              /\ pc # "parse_raised"
              /\ tree.children = <<IM_SexFilter(from_value(SexProperty, Text(5)).val)>>
        /\ (from_value(SexProperty, Text(5)).err # "" /\ from_value(StrokeProperty, Text(5)).err = "") =>
              /\ pc # "parse_raised"
              /\ tree.children = <<IM_StrokeFilter(from_value(StrokeProperty, Text(5)).val)>>

IntegerKeyed(i) == Str(upper(Text(i))) \in {"AGE", "NIHSS"}
IntegerLeafType(i) == IF Str(upper(Text(i))) = "AGE" THEN "AgeFilter" ELSE "NIHSSFilter"

\* C10: a condition whose identifier is AGE or NIHSS yields the integer leaf
\* of that identifier, carrying the number of its value token, or parsing
\* fails: in an accepted stream the k-th condition is the k-th leaf, and a
\* stream with such a condition whose value is no number is rejected.
C10_IntegerDispatchFirst ==
    ParseOver =>
        /\ pc # "parse_raised" =>
              /\ Len(Leaves(tree)) = Cardinality(ConditionStarts)
              /\ \A k \in 1..Cardinality(ConditionStarts) :
                    IntegerKeyed(Nth(ConditionStarts, k)) =>
                        /\ Leaves(tree)[k].type = IntegerLeafType(Nth(ConditionStarts, k))
                        /\ Leaves(tree)[k].value = int(Text(Nth(ConditionStarts, k) + 2)).val
        /\ (\E i \in ConditionStarts : IntegerKeyed(i) /\ int(Text(i + 2)).err # "")
              => pc = "parse_raised"

\* AGE or NIHSS compared with a sex or stroke alias has been rejected
C10_Witness ==
    /\ pc = "parse_raised" /\ error = "ValueError"
    /\ \E i \in ConditionStarts :
          /\ IntegerKeyed(i) /\ errpos = i + 2
          /\ from_value(SexProperty, Text(i + 2)).err = ""

\* the k-th condition of the token stream: where it starts, and its leaf in
\* an accepted stream (C10: the k-th condition is the k-th leaf)
ConditionAt(k) == Nth(ConditionStarts, k)
LeafOf(k)      == Leaves(tree)[k]

\* the value token of the condition at i resolves in the family
ValueIn(cls, i) == from_value(cls, Text(i + 2)).err = ""

\* the texts AND(DISCHARGEDATE c 2023-09-01), c a comparison symbol that resolves
DateTexts ==
    { Cat(<<T_AND, T_LP, T_DISCHARGEDATE, ComparisonSymbols[c], T_DATE, T_RP>>) :
          c \in {c \in 1..Len(ComparisonSymbols) :
                    from_value(ComparisonProperty, ComparisonSymbols[c]).err = ""} }

\* C11: a filter text with the condition DISCHARGEDATE <comparison> <ISO date>
\* parses, to a Date leaf carrying that comparison and that date.
C11_DateLeaf ==
    (ParseOver /\ input \in DateTexts) =>
        /\ pc # "parse_raised"
        /\ tree = LogicalFilter("AND",
                     <<IM_DateFilter(from_value(ComparisonProperty, Text(4)).val, T_DATE).val>>)

\* the condition at i reaches the Boolean step of the dispatch
BooleanStep(i) ==
    /\ ~KeyedByIdentifier(Text(i))
    /\ ~ValueIn(SexProperty, i) /\ ~ValueIn(StrokeProperty, i)
    /\ from_value(BooleanProperty, upper(Text(i))).err = ""

\* C12 as stated: the Boolean leaf's value is true exactly when the text of
\* the value token equals `true`.
C12_ValueIsExactTrue ==
    (ParseOver /\ pc # "parse_raised") =>
        \A k \in 1..Cardinality(ConditionStarts) :
            BooleanStep(ConditionAt(k)) =>
                LeafOf(k).value = (Text(ConditionAt(k) + 2) = T_true)

\* C12 amended: the Boolean leaf's value is true exactly when the text of the
\* value token, lower-cased, equals `true`; it carries the property the
\* identifier resolves to.
C12_ValueIsLowercasedTrue ==
    (ParseOver /\ pc # "parse_raised") =>
        \A k \in 1..Cardinality(ConditionStarts) :
            BooleanStep(ConditionAt(k)) =>
                /\ LeafOf(k).type = "BooleanFilter"
                /\ LeafOf(k).property = from_value(BooleanProperty, upper(Text(ConditionAt(k)))).val
                /\ LeafOf(k).value = (lower(Text(ConditionAt(k) + 2)) = T_true)

\* a Boolean condition with the value token TRUE has been parsed to a leaf
\* whose value is true
C12_Witness ==
    /\ ParseOver /\ pc # "parse_raised"
    /\ \E k \in 1..Cardinality(ConditionStarts) :
          /\ BooleanStep(ConditionAt(k))
          /\ Text(ConditionAt(k) + 2) = T_TRUE /\ LeafOf(k).value = TRUE

\* C13: a condition not keyed by its identifier whose value resolves in the
\* Sex and in the Stroke family yields the Sex leaf, never a Stroke leaf; it
\* is accepted whenever its comparison symbol resolves.
C13_SexBeforeStroke ==
    ParseOver =>
        /\ pc # "parse_raised" =>
              \A k \in 1..Cardinality(ConditionStarts) :
                  (/\ ~KeyedByIdentifier(Text(ConditionAt(k)))
                   /\ ValueIn(SexProperty, ConditionAt(k))
                   /\ ValueIn(StrokeProperty, ConditionAt(k))) =>
                      LeafOf(k) = IM_SexFilter(from_value(SexProperty, Text(ConditionAt(k) + 2)).val)
        /\ (/\ SingleCondition /\ ~KeyedByIdentifier(Text(3))
            /\ ValueIn(SexProperty, 3) /\ ValueIn(StrokeProperty, 3)
            /\ from_value(ComparisonProperty, Text(4)).err = "") => pc # "parse_raised"

\* FOO==UNSPECIFIED has been parsed to the leaf Sex(UNKNOWN)
C13_Witness ==
    /\ ParseOver /\ pc # "parse_raised" /\ SingleCondition
    /\ ~KeyedByIdentifier(Text(3))
    /\ ValueIn(SexProperty, 3) /\ ValueIn(StrokeProperty, 3)
    /\ from_value(SexProperty, Text(5)).val # from_value(StrokeProperty, Text(5)).val
    /\ tree.children = <<IM_SexFilter("UNKNOWN")>>

\* no step of the dispatch takes the condition at i
Undispatched(i) ==
    /\ ~KeyedByIdentifier(Text(i))
    /\ ~ValueIn(SexProperty, i) /\ ~ValueIn(StrokeProperty, i)
    /\ from_value(BooleanProperty, upper(Text(i))).err # ""

\* C14: a stream with a condition that no step of the dispatch takes is
\* rejected: parse_filter_string raises and returns no tree.
C14_UnknownConditionFails ==
    (ParseOver /\ \E i \in ConditionStarts : Undispatched(i)) =>
        /\ pc = "parse_raised" /\ tree = None
        /\ error \in {"ValueError", "SyntaxError"}

\* AND(FOO==BAR) has been rejected at the condition, with a ValueError
C14_Witness ==
    /\ pc = "parse_raised" /\ error = "ValueError" /\ input = ExampleFooBar
    /\ Undispatched(3) /\ errpos = 5



\* the query selects groupedBy under some metric
EmitsGroupedBy(q) ==
    \E i \in 1..Len(q.fields) :
        \E j \in 1..Len(q.fields[i].fields[1].fields) :
            q.fields[i].fields[1].fields[j].name = "groupedBy"

\* C15: in a series of build_query calls on the same metric builders and case
\* filter, the builders stay as they were handed over, two calls with the same
\* groupBy return the same query, and a call without groupBy selects no
\* groupedBy.
C15_CompileIsPure ==
    call = "compile" =>
        /\ \E enum_format \in EnumFormats :
               builders = MetricsRequest_to_MetricBuilder(input.metrics, enum_format)
        /\ \A i, j \in 1..Len(outputs) :
               outputs[i].groupBy = outputs[j].groupBy => outputs[i].query = outputs[j].query
        /\ \A i \in 1..Len(outputs) :
               outputs[i].groupBy = "" => ~EmitsGroupedBy(outputs[i].query)

\* C16: Distribution(bin_count, lower, upper) returns exactly when
\* lower < upper and bin_count > 0, and then holds the three values as given;
\* otherwise it raises a ValueError and there is no object.
C16_DistributionBounds ==
    (call = "distribution" /\ pc # "start") =>
        /\ (pc = "constructed") <=> (input.lower < input.upper /\ input.bin_count > 0)
        /\ pc = "constructed" =>
               /\ error = ""
               /\ result = [bin_count |-> input.bin_count, lower |-> input.lower,
                            upper |-> input.upper]
        /\ pc # "constructed" =>
               pc = "construct_raised" /\ error = "ValueError" /\ result = None

\* Distribution(bin_count=0, lower=0, upper=10) was refused
C16_Witness ==
    /\ call = "distribution" /\ pc = "construct_raised"
    /\ input = [bin_count |-> 0, lower |-> 0, upper |-> 10]

\* the positions of the specs of the call whose KPI field, upper-cased, is kpi
SpecsFor(kpi) ==
    {i \in 1..Len(input.distribution) :
         Str(upper(split(input.distribution[i], ":")[1])) = kpi}

\* the fields of the last spec of the call given for kpi, None without one
GivenFor(kpi) ==
    IF SpecsFor(kpi) = {} THEN None
    ELSE LET fields ==
                 split(input.distribution[CHOOSE i \in SpecsFor(kpi) :
                                              \A j \in SpecsFor(kpi) : j <= i], ":")
         IN  [bin_count |-> int(fields[2]).val, lower |-> int(fields[3]).val,
              upper |-> int(fields[4]).val]

\* metrics=[DTN], distribution=[DTN:12:0:120], stats=true, no group
MetricsExample ==
    [metrics |-> <<W_DTN>>, distribution |-> <<D_DTN>>, stats |-> TRUE, group |-> <<>>]

\* C17: when build_metric_response returns, the collection holds one metric per
\* word, in the order of the words: its kpi is the member the word resolves to,
\* its stats is the flag, its distribution is the spec whose KPI field names
\* that member's value (None without one); group_by is None without a group.
\* The example call returns exactly one metric DTN with stats and (12, 0, 120).
C17_MetricPerWord ==
    /\ (call = "metrics" /\ pc = "metrics_built") =>
           /\ Len(result.metricsCollection.metrics) = Len(input.metrics)
           /\ \A i \in 1..Len(input.metrics) :
                  /\ result.metricsCollection.metrics[i].kpi = from_value(KPI, input.metrics[i]).val
                  /\ result.metricsCollection.metrics[i].stats = input.stats
                  /\ result.metricsCollection.metrics[i].distribution = GivenFor(result.metricsCollection.metrics[i].kpi)
           /\ input.group = <<>> => result.metricsCollection.group_by = ""
    /\ (call = "metrics" /\ pc # "start" /\ input = MetricsExample) =>
           /\ pc = "metrics_built"
           /\ result = MetricResponse(
                  [metrics |-> <<[kpi |-> "DTN", stats |-> TRUE,
                                  distribution |-> [bin_count |-> 12, lower |-> 0,
                                                    upper |-> 120]]>>,
                   group_by |-> ""])

\* the example call has returned
C17_Witness ==
    call = "metrics" /\ pc = "metrics_built" /\ input = MetricsExample


\* translate has returned
Translated == call = "translate" /\ pc = "translated"

\* the filter of the response and, when there is one, its children
TheFilter == result.FilterResponse.logicalFilter
TopChildren == TheFilter.children

\* the positions of the entities of a kind that carry a value under a role
RangeEntities(kind, role) ==
    {i \in 1..Len(input.entities) :
         /\ input.entities[i].entity = kind
         /\ "value" \in DOMAIN input.entities[i]
         /\ "role" \in DOMAIN input.entities[i]
         /\ input.entities[i].role = role}

\* the integer of the last entity of a kind under a role
RangeValue(kind, role) ==
    int(input.entities[CHOOSE i \in RangeEntities(kind, role) :
                           \A j \in RangeEntities(kind, role) : j <= i].value).val

\* the positions of the top-level children that are a leaf of a type with a
\* comparison
RangeLeaves(type, operator) ==
    {k \in 1..Len(TopChildren) :
         TopChildren[k].type = type /\ TopChildren[k].operator = operator}

\* the values of the entities of a kind, in the order of arrival
ValuesOf(kind) ==
    [i \in 1..Len(SelectSeq(input.entities,
                            LAMBDA e : e.entity = kind /\ "value" \in DOMAIN e)) |->
         SelectSeq(input.entities, LAMBDA e : e.entity = kind /\ "value" \in DOMAIN e)[i].value]

\* the members that the values of a kind resolve to in an enumeration, in the
\* order of arrival; values that resolve to none are left out
ResolvedOf(kind, cls) ==
    [i \in 1..Len(SelectSeq(ValuesOf(kind), LAMBDA v : from_value(cls, v).err = "")) |->
         from_value(cls, SelectSeq(ValuesOf(kind), LAMBDA v : from_value(cls, v).err = "")[i]).val]

\* the leaves of a type for the values of a kind
LeavesOf(kind, cls, type) ==
    [i \in 1..Len(ResolvedOf(kind, cls)) |-> [type |-> type, value |-> ResolvedOf(kind, cls)[i]]]

\* a leaf is collected from some entity
LeafCollected ==
    \/ \E kind \in {"age", "nihss", "date"}, role \in {"lower", "upper"} :
           RangeEntities(kind, role) # {}
    \/ ResolvedOf("sex", SexProperty) # <<>>
    \/ ResolvedOf("stroke_type", StrokeProperty) # <<>>
    \/ ResolvedOf("boolean_type", BooleanProperty) # <<>>

\* the top-level children that are a Logical node of an operator
NodesOf(operator) ==
    {k \in 1..Len(TopChildren) :
         TopChildren[k].type = "LogicalFilter" /\ TopChildren[k].operator = operator}

\* a node has a child of a leaf type
HoldsLeaf(node, type) == \E c \in 1..Len(node.children) : node.children[c].type = type

\* age 40 lower, age 60 upper
AgeRangeExample == <<Ranged("age", V_40, "lower"), Ranged("age", V_60, "upper")>>

\* C18: when translate returns, an age or NIHSS entity with role lower gives
\* one leaf of its type with GE and the entity's integer, one with role upper
\* one leaf with LE, and there is no such leaf without such an entity; the GE
\* leaf stands before the LE leaf; the leaves are children of one top-level
\* AND that holds no further AND; the filter is None exactly when no leaf is
\* collected.  Age 40 lower and age 60 upper give AND[Age GE 40, Age LE 60] in
\* either order of arrival.
C18_RangeLeavesUnderAnd ==
    Translated =>
        /\ (TheFilter = None) <=> ~LeafCollected
        /\ TheFilter # None =>
               /\ TheFilter.type = "LogicalFilter" /\ TheFilter.operator = "AND"
               /\ NodesOf("AND") = {}
               /\ \A kind \in {"age", "nihss"}, role \in {"lower", "upper"} :
                      IF RangeEntities(kind, role) = {}
                      THEN RangeLeaves(IF kind = "age" THEN "AgeFilter" ELSE "NIHSSFilter",
                                       IF role = "lower" THEN "GE" ELSE "LE") = {}
                      ELSE \E k \in 1..Len(TopChildren) :
                               /\ RangeLeaves(IF kind = "age" THEN "AgeFilter" ELSE "NIHSSFilter",
                                              IF role = "lower" THEN "GE" ELSE "LE") = {k}
                               /\ TopChildren[k].value = RangeValue(kind, role)
               /\ \A type \in {"AgeFilter", "NIHSSFilter"} :
                      \A k \in RangeLeaves(type, "GE"), l \in RangeLeaves(type, "LE") : k < l
        /\ (input.entities = AgeRangeExample
            \/ input.entities = <<AgeRangeExample[2], AgeRangeExample[1]>>) =>
               TheFilter = LogicalFilter("AND", <<IM_AgeFilter("GE", 40), IM_AgeFilter("LE", 60)>>)

\* the upper bound arrived before the lower bound
C18_Witness ==
    /\ Translated
    /\ input.entities = <<AgeRangeExample[2], AgeRangeExample[1]>>
    /\ TheFilter = LogicalFilter("AND", <<IM_AgeFilter("GE", 40), IM_AgeFilter("LE", 60)>>)

\* C19: when translate returns for a message with an exclusion keyword and n >= 1
\* stroke-type values resolve, the top-level AND has exactly n NOT children,
\* the k-th with the k-th resolved Stroke leaf as its only child; no Stroke
\* leaf stands bare or under an OR; no Sex leaf stands under a NOT.
C19_EachStrokeNegated ==
    (/\ Translated
     /\ has_exclusion_context(input.user_message)
     /\ ResolvedOf("stroke_type", StrokeProperty) # <<>>) =>
        /\ TheFilter # None /\ TheFilter.operator = "AND"
        /\ Cardinality(NodesOf("NOT")) = Len(ResolvedOf("stroke_type", StrokeProperty))
        /\ [i \in 1..Len(SelectSeq(TopChildren,
                                   LAMBDA c : c.type = "LogicalFilter" /\ c.operator = "NOT")) |->
                SelectSeq(TopChildren,
                          LAMBDA c : c.type = "LogicalFilter" /\ c.operator = "NOT")[i].children]
           = [i \in 1..Len(ResolvedOf("stroke_type", StrokeProperty)) |->
                  <<LeavesOf("stroke_type", StrokeProperty, "StrokeFilter")[i]>>]
        /\ \A k \in 1..Len(TopChildren) : TopChildren[k].type # "StrokeFilter"
        /\ \A k \in NodesOf("OR") : ~HoldsLeaf(TopChildren[k], "StrokeFilter")
        /\ \A k \in NodesOf("NOT") : ~HoldsLeaf(TopChildren[k], "SexFilter")

\* two stroke types are excluded beside one sex
C19_Witness ==
    /\ Translated
    /\ has_exclusion_context(input.user_message)
    /\ input.entities = <<Entity("stroke_type", T_TIA), Entity("stroke_type", V_ischemic),
                          Entity("sex", T_MALE)>>
    /\ Cardinality(NodesOf("NOT")) = 2
    /\ TopChildren[1] = IM_SexFilter("MALE")

\* the members of a kind that is included stand under the top-level AND as
\* one OR over all their leaves when they are two or more, as the bare leaf
\* when there is one; no other child holds a leaf of that type
IncludedAs(kind, cls, type) ==
    /\ Len(LeavesOf(kind, cls, type)) >= 2 =>
           /\ Cardinality({k \in 1..Len(TopChildren) :
                               TopChildren[k] = LogicalFilter("OR", LeavesOf(kind, cls, type))}) = 1
           /\ \A k \in 1..Len(TopChildren) :
                  /\ TopChildren[k].type # type
                  /\ (/\ TopChildren[k].type = "LogicalFilter"
                      /\ HoldsLeaf(TopChildren[k], type)) =>
                         TopChildren[k] = LogicalFilter("OR", LeavesOf(kind, cls, type))
    /\ Len(LeavesOf(kind, cls, type)) = 1 =>
           /\ Cardinality({k \in 1..Len(TopChildren) :
                               TopChildren[k] = LeavesOf(kind, cls, type)[1]}) = 1
           /\ \A k \in 1..Len(TopChildren) :
                  /\ TopChildren[k].type = type => TopChildren[k] = LeavesOf(kind, cls, type)[1]
                  /\ TopChildren[k].type = "LogicalFilter" => ~HoldsLeaf(TopChildren[k], type)

\* C20: when translate returns, the sex values that resolve stand under the
\* top-level AND as one OR holding all their leaves when they are two or more
\* and as the bare leaf when there is one; so do the stroke-type values when
\* the message has no exclusion keyword.
C20_OrOverSameType ==
    (Translated /\ TheFilter # None) =>
        /\ IncludedAs("sex", SexProperty, "SexFilter")
        /\ ~has_exclusion_context(input.user_message) =>
               IncludedAs("stroke_type", StrokeProperty, "StrokeFilter")

\* two sexes under one OR beside one bare stroke type
C20_Witness ==
    /\ Translated
    /\ ~has_exclusion_context(input.user_message)
    /\ input.entities = <<Entity("sex", T_F), Entity("stroke_type", T_TIA), Entity("sex", T_MALE)>>
    /\ TheFilter = LogicalFilter("AND", <<LogicalFilter("OR", <<IM_SexFilter("FEMALE"),
                                                               IM_SexFilter("MALE")>>),
                                          IM_StrokeFilter("TRANSIENT_ISCHEMIC")>>)


\* the children of a list of filters, each Logical node replaced by its own
\* children
RECURSIVE Flat(_, _)
Flat(children, i) ==
    IF i > Len(children) THEN <<>>
    ELSE (IF children[i].type = "LogicalFilter" THEN children[i].children ELSE <<children[i]>>)
         \o Flat(children, i + 1)

\* the leaves of a type in the filter of the response, in their order
LeavesIn(type) ==
    IF TheFilter = None THEN <<>>
    ELSE SelectSeq(Flat(TopChildren, 1), LAMBDA c : c.type = type)

\* the positions of the entities that translate cannot interpret: an age or
\* NIHSS value under a role that is no integer, a date under the role lower or
\* upper that is no YYYY-MM-DD
Uninterpreted ==
    {i \in 1..Len(input.entities) :
         /\ "value" \in DOMAIN input.entities[i]
         /\ "role" \in DOMAIN input.entities[i]
         /\ input.entities[i].role # ""
         /\ \/ /\ input.entities[i].entity \in {"age", "nihss"}
               /\ int(input.entities[i].value).err # ""
            \/ /\ input.entities[i].entity = "date"
               /\ input.entities[i].role \in {"lower", "upper"}
               /\ ~DatePattern(input.entities[i].value)}

\* the group_by of the response for the group_by values of the entities: the
\* member the last one resolves to, None ("") when it resolves to none
GroupByOf(values) ==
    IF values = <<>> THEN ""
    ELSE IF from_value(GroupProperty, values[Len(values)]).err # "" THEN ""
    ELSE from_value(GroupProperty, values[Len(values)]).val

\* C21: a sex, stroke-type, boolean-property, KPI or group-by value that is no
\* member never makes translate raise: translate raises only with an entity it
\* cannot interpret as an integer or a date.  When translate returns, the Sex,
\* Stroke and Boolean leaves of the filter are those of the values that
\* resolve, in the order of arrival; the metrics are those of the KPI values
\* that resolve, None without one; group_by is None when its value resolves to
\* no member.
C21_UnresolvedDropped ==
    /\ (call = "translate" /\ pc = "translate_raised") => Uninterpreted # {}
    /\ Translated =>
           /\ LeavesIn("SexFilter") = LeavesOf("sex", SexProperty, "SexFilter")
           /\ LeavesIn("StrokeFilter") = LeavesOf("stroke_type", StrokeProperty, "StrokeFilter")
           /\ LeavesIn("BooleanFilter") =
                  [i \in 1..Len(ResolvedOf("boolean_type", BooleanProperty)) |->
                       IM_BooleanFilter(ResolvedOf("boolean_type", BooleanProperty)[i], TRUE)]
           /\ IF ResolvedOf("kpi", KPI) = <<>>
              THEN result.MetricResponse.metricsCollection = None
              ELSE /\ [i \in 1..Len(result.MetricResponse.metricsCollection.metrics) |->
                           result.MetricResponse.metricsCollection.metrics[i].kpi]
                      = ResolvedOf("kpi", KPI)
                   /\ result.MetricResponse.metricsCollection.group_by
                      = GroupByOf(ValuesOf("group_by"))

\* a KPI, a boolean property and a group-by that are no members were dropped
\* beside a KPI and a boolean property that are
C21_Witness ==
    /\ Translated
    /\ input.entities = UnresolvedExample
    /\ TheFilter = LogicalFilter("AND", <<IM_BooleanFilter("THROMBECTOMY", TRUE)>>)
    /\ result.MetricResponse.metricsCollection
       = MetricsCollection(<<Metric("DTN", TRUE, [bin_count |-> 12, lower |-> 0, upper |-> 120])>>, "")

\* C30: translate returns for every entity list: it never raises, and an
\* entity it cannot interpret as an integer or a date leaves no leaf.
C30_TranslateNeverRaises ==
    call = "translate" =>
        /\ pc # "translate_raised"
        /\ (Translated /\ TheFilter # None) =>
               \A kind \in {"age", "nihss"}, role \in {"lower", "upper"} :
                   (\A i \in RangeEntities(kind, role) : i \in Uninterpreted) =>
                       RangeLeaves(IF kind = "age" THEN "AgeFilter" ELSE "NIHSSFilter",
                                   IF role = "lower" THEN "GE" ELSE "LE") = {}


\* C22: in the family OperatorProperty the text & resolves to AND, | to OR and
\* ! to NOT.
C22_SymbolicOperators ==
    (call = "resolve" /\ pc # "start" /\ family = "OperatorProperty") =>
        /\ input = <<"&">> => (pc = "resolved" /\ resolved = "AND")
        /\ input = <<"|">> => (pc = "resolved" /\ resolved = "OR")
        /\ input = <<"!">> => (pc = "resolved" /\ resolved = "NOT")


\* C23: the text _clean_query returns has no whitespace but single blanks, none
\* at its ends, and a blank on each side of every brace that is not at an end.
C23_CleanedSpacing ==
    (call = "clean" /\ pc = "cleaned") =>
        /\ \A i \in 1..Len(result) : result[i] \in Space => result[i] = " "
        /\ \A i \in 1..(Len(result) - 1) : ~(result[i] = " " /\ result[i + 1] = " ")
        /\ result # <<>> => (result[1] # " " /\ result[Len(result)] # " ")
        /\ \A i \in 1..Len(result) :
               result[i] \in {"{", "}"} =>
                   /\ i > 1 => result[i - 1] = " "
                   /\ i < Len(result) => result[i + 1] = " "


\* the tasks whose thread runs client.query
InProgress == {t \in DOMAIN tasks : tasks[t] \in {"querying", "abandoned"}}

\* C24: in a plan run at most max_concurrency threads run client.query at any
\* moment, and at most one under execute_plan.
C24_BoundedQueries ==
    call = "plan" =>
        /\ Cardinality(InProgress) <= input.max_concurrency
        /\ input.wrapper => Cardinality(InProgress) <= 1

\* two queries are in progress and a third request waits for the semaphore
C24_Witness ==
    /\ call = "plan" /\ input.max_concurrency = 2 /\ input.requests >= 3
    /\ Cardinality(InProgress) = 2
    /\ locked(input.python, sem, tasks)
    /\ \E t \in DOMAIN tasks : tasks[t] = "waiting"

\* C25: parse_filter_string accepts a text only if the parse takes the whole
\* token stream: when it returns a tree, no token is left after the filter,
\* so AND(AGE==5) OR(SEX==MALE) and AND(AGE==5)) are rejected.
C25_WholeStreamConsumed ==
    (ParseOver /\ pc # "parse_raised") => Taken = Len(tokens)

\* C26: the value of a condition is an identifier word or a number: in an
\* accepted stream the third token of every condition the parser has read is
\* of one of these two kinds, so AND(THROMBECTOMY==)) and
\* AND(THROMBECTOMY==AND) are rejected.
C26_ValueIsWordOrNumber ==
    (ParseOver /\ pc # "parse_raised") =>
        \A i \in ConditionStarts : Kind(i + 2) \in {"IDENT", "NUMBER"}

\* the kpi field of the i-th metric of a built query
KpiField(q, i) == q.fields[i].fields[1].fields[1]

\* C27: the lowerBoundary and upperBoundary of a compiled metric are the
\* lower and upper of its distribution, for every lower < upper, zero and
\* negative bounds included (lower = -10, upper = 0).
C27_BoundsAsGiven ==
    call = "compile" =>
        \A k \in 1..Len(outputs) : \A i \in 1..Len(input.metrics) :
            input.metrics[i].distribution # None =>
                /\ Len(KpiField(outputs[k].query, i).arguments) = 1
                /\ KpiField(outputs[k].query, i).arguments[1].value =
                       <<Argument("lowerBoundary", input.metrics[i].distribution.lower),
                         Argument("upperBoundary", input.metrics[i].distribution.upper)>>

\* the Distribution of the i-th spec of the call
SpecDistribution(i) == FieldsDistribution(split(input.distribution[i], ":")).val

\* C28: parse_metrics never ignores a well-formed distribution spec: when the
\* call returns, every spec is the distribution of a metric of the result,
\* also a spec whose KPI field is an alias of a requested metric (the word
\* nihss with nihss:10:0:42) and a spec that names no requested metric or no
\* KPI; any other call fails.
C28_NoSpecIgnored ==
    (call = "metrics" /\ pc = "metrics_built") =>
        \A i \in 1..Len(input.distribution) :
            \E j \in 1..Len(result.metricsCollection.metrics) :
                result.metricsCollection.metrics[j].distribution = SpecDistribution(i)

\* the metricId of the i-th metric of a built query
MetricId(q, i) == q.fields[i].arguments[1].value

\* C29: the KPI family and the Metric enumeration of the compiler agree: the
\* kpi of every metric that parse_metrics returns, and the metricId of every
\* compiled metric, is a value of Metric, and a call that names only values
\* of Metric (STROKE_TYPE), without specs and group, returns.
C29_KpiAgreesWithMetric ==
    /\ (call = "metrics" /\ pc = "metrics_built") =>
           \A i \in 1..Len(result.metricsCollection.metrics) : result.metricsCollection.metrics[i].kpi \in GB_Metric
    /\ (call = "metrics" /\ pc = "metrics_raised"
           /\ input.distribution = <<>> /\ input.group = <<>>) =>
           \E i \in 1..Len(input.metrics) : Str(input.metrics[i]) \notin GB_Metric
    /\ call = "compile" =>
           \A k \in 1..Len(outputs) : \A i \in 1..Len(outputs[k].query.fields) :
               MetricId(outputs[k].query, i) \in GB_Metric

=============================================================================
